---- MODULE Spec2Model ----
(***************************************************************************)
(* Verification model of the BibTeX resolution engine of                   *)
(* inspire-for-overleaf: the ADS resolver (lib/bibtex-resolver.js) and the  *)
(* INSPIRE resolver (the second bibtex-resolver.js), their batch loop,      *)
(* the title matcher and the result categorizer.                            *)
(***************************************************************************)
EXTENDS Integers, Sequences, FiniteSets, TLC

VARIABLES
    provider,    \* "ads" | "inspire": which resolver module is running
    capability,  \* the injected capability: "arbitrary", or "failing" (every method throws)
    entries,     \* resolveEntries' argument: the parsed entries, in input order
    onProgress,  \* resolveEntries' argument: is a progress callback supplied
    delayMs,     \* resolveEntries' argument: the inter-request delay
    loop,        \* position of resolveEntries: [pc, i]
    res,         \* per entry: the resolveEntry activation (pc, identifiers, result)
    calls,       \* per entry: the capability calls issued so far, in order
    results,     \* resolveEntries' local `results` array
    progress,    \* the onProgress invocations made so far: <<current, total, result>>
    delays,      \* the delay(delayMs) awaited so far: the index of the entry each followed
    match,       \* findBestMatch harness: [pc, title, year, documents, out]
    cat,         \* categorizeResults harness: [pc, input, found, notFound, errors]
    fn,          \* a pure function applied to drawn arguments: [pc, ...arguments, out]
    net,         \* an API client: clock, rate limiter, and the pending request() calls
    store        \* chrome.storage.local, the clock, and the calls made on Storage

vars == <<provider, capability, entries, onProgress, delayMs, loop, res, calls, results,
          progress, delays, match, cat, fn, net, store>>

Null == "null"

Range(s) == {s[k] : k \in 1..Len(s)}

\* Sequences over S of length at most n.
SeqUpTo(S, n) == UNION {[1..k -> S] : k \in 0..n}

(***************************************************************************)
(* Numbers.  Confidence, similarity and score are fractions <<num, den>>    *)
(* with den > 0, compared by cross-multiplication.  The similarities that   *)
(* occur have denominators up to the number of distinct words of the two    *)
(* titles, at most five here; for denominators up to six the doubles n/d    *)
(* and n/d + 0.1 are ordered among themselves, and against 0.5 and 0.9, as  *)
(* the exact values are.                                                    *)
(***************************************************************************)
Frac(n, d) == <<n, d>>
Gt(a, b) == a[1] * b[2] > b[1] * a[2]
Eq(a, b) == a[1] * b[2] = b[1] * a[2]
Le(a, b) == ~Gt(a, b)
FMin(a, b) == IF Gt(a, b) THEN b ELSE a
Plus(a, b) == <<a[1] * b[2] + b[1] * a[2], a[2] * b[2]>>
Zero == Frac(0, 1)

(***************************************************************************)
(* Strings are sequences of one-character strings.                          *)
(***************************************************************************)
LowerLetters == {"a", "b", "c", "d", "o", "f"}
UpperLetters == {"A", "B"}
Letters == LowerLetters \cup UpperLetters
Digits == {"0", "1", "2"}
Whitespace == {" ", "\t"}

\* String.prototype.toLowerCase, per character.
ToLowerChar(c) ==
    CASE c = "A" -> "a"
      [] c = "B" -> "b"
      [] OTHER -> c

ToLowerCase(s) == [k \in 1..Len(s) |-> ToLowerChar(s[k])]

\* s.replace(/\$[^$]*\$/g, ''): drop each span from a "$" to the next "$".
RemoveMath(s) ==
    LET RECURSIVE F(_)
        F(i) ==
            IF i > Len(s) THEN <<>>
            ELSE IF s[i] = "$" /\ \E j \in (i+1)..Len(s) : s[j] = "$"
                 THEN LET j == CHOOSE j \in (i+1)..Len(s) :
                                  /\ s[j] = "$"
                                  /\ \A k \in (i+1)..(j-1) : s[k] # "$"
                      IN  F(j + 1)
                 ELSE <<s[i]>> \o F(i + 1)
    IN  F(1)

\* First index >= i whose character is not in S (Len(s)+1 if none).
SkipWhile(s, i, S) ==
    IF \E j \in i..Len(s) : s[j] \notin S
    THEN CHOOSE j \in i..Len(s) : s[j] \notin S /\ \A k \in i..(j-1) : s[k] \in S
    ELSE Len(s) + 1

\* s.replace(/\\[a-zA-Z]+\s*/g, ''): drop a backslash, the letters after it
\* and the whitespace after those.
RemoveCommands(s) ==
    LET RECURSIVE F(_)
        F(i) ==
            IF i > Len(s) THEN <<>>
            ELSE IF s[i] = "\\" /\ i < Len(s) /\ s[i+1] \in Letters
                 THEN F(SkipWhile(s, SkipWhile(s, i + 1, Letters), Whitespace))
                 ELSE <<s[i]>> \o F(i + 1)
    IN  F(1)

\* s.replace(/[...]/g, '') for a character class: drop the characters in S.
RemoveChars(s, S) == SelectSeq(s, LAMBDA c : c \notin S)

\* Variant without the g flag: only the first character outside S is dropped.
KeepChars_FirstOnly(s, S) ==
    LET j == SkipWhile(s, 1, S)
    IN  IF j > Len(s) THEN s ELSE SubSeq(s, 1, j - 1) \o SubSeq(s, j + 1, Len(s))

\* s.replace(/[^...]/g, ''): keep only the characters in S.
KeepChars(s, S) == SelectSeq(s, LAMBDA c : c \in S)

\* s.replace(/\s+/g, ' '): every run of whitespace becomes one space.
CollapseWhitespace(s) ==
    LET RECURSIVE F(_)
        F(i) ==
            IF i > Len(s) THEN <<>>
            ELSE IF s[i] \in Whitespace
                 THEN <<" ">> \o F(SkipWhile(s, i, Whitespace))
                 ELSE <<s[i]>> \o F(i + 1)
    IN  F(1)

\* String.prototype.trim.
Trim(s) ==
    IF \A k \in 1..Len(s) : s[k] \in Whitespace THEN <<>>
    ELSE LET a == SkipWhile(s, 1, Whitespace)
             b == CHOOSE j \in 1..Len(s) :
                      s[j] \notin Whitespace /\ \A k \in (j+1)..Len(s) : s[k] \in Whitespace
         IN  SubSeq(s, a, b)

\* s.split(' '): the pieces between single spaces (empty pieces included).
SplitSpace(s) ==
    LET RECURSIVE F(_, _)
        F(i, cur) ==
            IF i > Len(s) THEN <<cur>>
            ELSE IF s[i] = " " THEN <<cur>> \o F(i + 1, <<>>)
                 ELSE F(i + 1, Append(cur, s[i]))
    IN  F(1, <<>>)

normalizeTitle(title) ==
    Trim(CollapseWhitespace(
        KeepChars(
            RemoveChars(
                RemoveCommands(RemoveMath(ToLowerCase(title))),
                {"{", "}", "\\", "$", "^", "_"}),
            LowerLetters \cup Digits \cup Whitespace)))

\* new Set(title.split(' ').filter(w => w.length > 2))
TitleWords(title) == {w \in Range(SplitSpace(title)) : Len(w) > 2}

\* Variant that divides by the number of words of the first title.
Similarity_OverFirst(title1, title2) ==
    LET words1 == TitleWords(title1)
        words2 == TitleWords(title2)
    IN  IF words1 = {} \/ words2 = {} THEN Zero
        ELSE Frac(Cardinality(words1 \cap words2), Cardinality(words1))

calculateTitleSimilarity(title1, title2) ==
    LET words1 == TitleWords(title1)
        words2 == TitleWords(title2)
    IN  IF words1 = {} \/ words2 = {} THEN Zero
        ELSE Frac(Cardinality(words1 \cap words2), Cardinality(words1 \cup words2))

(***************************************************************************)
(* JavaScript values.  A BibTeX field is [present, text]; a document is     *)
(* [id, title, year] with title [kind, text] (a string, a one-element or    *)
(* an empty array, or absent) and year a number, 0 standing for the falsy   *)
(* values (0, null, undefined).                                             *)
(***************************************************************************)
Field(text) == [present |-> TRUE, text |-> text]
NoField == [present |-> FALSE, text |-> <<>>]

\* Truthiness of a string-valued field: absent and '' are falsy.
Truthy(f) == f.present /\ f.text # <<>>

\* f || ''
OrEmpty(f) == IF Truthy(f) THEN f.text ELSE <<>>

DigitVal(c) == CASE c = "0" -> 0 [] c = "1" -> 1 [] c = "2" -> 2 [] OTHER -> -1

\* parseInt(s): the value of the leading run of digits, -1 for NaN.
ParseInt(s) ==
    LET n == SkipWhile(s, 1, Digits) - 1
        RECURSIVE V(_)
        V(k) == IF k = 0 THEN 0 ELSE 10 * V(k - 1) + DigitVal(s[k])
    IN  IF n = 0 THEN -1 ELSE V(n)

StrTitle(text) == [kind |-> "string", text |-> text]
ArrTitle(text) == [kind |-> "array", text |-> text]
EmptyArrTitle == [kind |-> "emptyArray", text |-> <<>>]
NoTitle == [kind |-> "absent", text |-> <<>>]

\* Array.isArray(doc.title) ? doc.title[0] : doc.title || ''
\* (doc.title[0] of an empty array is undefined, and normalizeTitle throws on it)
DocTitleThrows(doc) == doc.title.kind = "emptyArray"
DocTitleText(doc) == doc.title.text

NoMatch == [found |-> FALSE, idx |-> 0, confidence |-> Zero]

Bonus == Frac(1, 10)
Threshold == Frac(1, 2)
TitleCap == Frac(9, 10)

\* The year test of findBestMatch: entryYear && doc.year && parseInt(entryYear) === doc.year
YearMatches(year, doc) ==
    /\ Truthy(year)
    /\ doc.year # 0
    /\ ParseInt(year.text) = doc.year

\* score of one candidate: similarity, plus 0.1 on a year match
Score(similarity, year, doc) ==
    IF YearMatches(year, doc) THEN Plus(similarity, Bonus) ELSE similarity

\* Variant with the threshold test similarity >= 0.5.
Eligible_AtThreshold(score, bestScore, similarity) ==
    Gt(score, bestScore) /\ ~Gt(Threshold, similarity)

\* Variant with the test score >= bestScore, which keeps the last maximum.
Eligible_LastMax(score, bestScore, similarity) ==
    ~Gt(bestScore, score) /\ Gt(similarity, Threshold)

\* the eligibility test of findBestMatch: score > bestScore && similarity > 0.5
Eligible(score, bestScore, similarity) ==
    Gt(score, bestScore) /\ Gt(similarity, Threshold)

\* confidence of a title match: Math.min(similarity, 0.9)
MatchConfidence(similarity) == FMin(similarity, TitleCap)

\* findBestMatch(entry, documents): [kind, idx, confidence]; kind is "match",
\* "null" (no candidate is eligible) or "throw" (a TypeError escapes).
findBestMatch(fields, documents) ==
    LET entryTitle == normalizeTitle(OrEmpty(fields.title))
        entryYear == fields.year
        RECURSIVE Scan(_, _, _)
        Scan(k, bestMatch, bestScore) ==
            IF k > Len(documents) THEN
                [kind |-> IF bestMatch.found THEN "match" ELSE "null",
                 idx |-> bestMatch.idx, confidence |-> bestMatch.confidence]
            ELSE IF DocTitleThrows(documents[k]) THEN
                [kind |-> "throw", idx |-> 0, confidence |-> Zero]
            ELSE
                LET doc == documents[k]
                    docTitle == normalizeTitle(DocTitleText(doc))
                    similarity == calculateTitleSimilarity(entryTitle, docTitle)
                    score == Score(similarity, entryYear, doc)
                IN  IF Eligible(score, bestScore, similarity)
                    THEN Scan(k + 1,
                              [found |-> TRUE, idx |-> k,
                               confidence |-> MatchConfidence(similarity)],
                              score)
                    ELSE Scan(k + 1, bestMatch, bestScore)
    IN  Scan(1, NoMatch, Zero)


(***************************************************************************)
(* resolveEntry.  A step is one capability call site: [kind, q], q the      *)
(* number of the query phrasing within its strategy.                        *)
(***************************************************************************)
Step(kind, q) == [kind |-> kind, q |-> q]

\* Variant of the ADS order with the arXiv phrasings ahead of the DOI queries.
AdsOrder_ArxivFirst ==
    <<Step("native", 1),
      Step("arxiv", 1), Step("arxiv", 2), Step("arxiv", 3), Step("arxiv", 4),
      Step("doi", 1), Step("doi", 2),
      Step("title", 1)>>

\* Variant of the INSPIRE order with the recid lookup ahead of DOI and arXiv.
InspireOrder_NativeFirst ==
    <<Step("native", 1), Step("doi", 1), Step("arxiv", 1), Step("title", 1)>>

\* Variant of the ADS order that repeats the title search once.
AdsOrder_TitleTwice ==
    <<Step("native", 1), Step("doi", 1), Step("doi", 2),
      Step("arxiv", 1), Step("arxiv", 2), Step("arxiv", 3), Step("arxiv", 4),
      Step("title", 1), Step("title", 1)>>

\* lib/bibtex-resolver.js: bibcode, doi quoted, doi unquoted, the four
\* arxivQueries, title search.
AdsOrder ==
    <<Step("native", 1), Step("doi", 1), Step("doi", 2),
      Step("arxiv", 1), Step("arxiv", 2), Step("arxiv", 3), Step("arxiv", 4),
      Step("title", 1)>>

\* the INSPIRE resolver: lookupByDOI, lookupByArxiv, getRecord, search.
InspireOrder ==
    <<Step("doi", 1), Step("arxiv", 1), Step("native", 1), Step("title", 1)>>

Order(p) == IF p = "ads" THEN AdsOrder ELSE InspireOrder

\* Variant in which a title alone is enough for the title search.
StepGuard_TitleOnly(s, ids, fields) ==
    CASE s.kind = "native" -> ids.native
      [] s.kind = "doi" -> ids.doi
      [] s.kind = "arxiv" -> ids.arxiv
      [] s.kind = "title" -> Truthy(fields.title)

\* The `if` that guards a step's strategy.
StepGuard(s, ids, fields) ==
    CASE s.kind = "native" -> ids.native
      [] s.kind = "doi" -> ids.doi
      [] s.kind = "arxiv" -> ids.arxiv
      [] s.kind = "title" -> Truthy(fields.title) /\ Truthy(fields.author)

\* Variant that gives up after the first strategy that made a call.
NextStep_FirstOnly(p, k, ids, fields) ==
    IF k = 0 /\ \E n \in 1..Len(Order(p)) : StepGuard(Order(p)[n], ids, fields)
    THEN CHOOSE n \in 1..Len(Order(p)) :
             /\ StepGuard(Order(p)[n], ids, fields)
             /\ \A m \in 1..(n - 1) : ~StepGuard(Order(p)[m], ids, fields)
    ELSE 0

\* Index of the first step after position k whose guard holds, 0 if none.
NextStep(p, k, ids, fields) ==
    LET later == {n \in (k+1)..Len(Order(p)) : StepGuard(Order(p)[n], ids, fields)}
    IN  IF later = {} THEN 0 ELSE CHOOSE n \in later : \A m \in later : n <= m

\* Variant without the outer try/catch around the title search.
OnThrow_TitleUncaught(p, s) ==
    IF \/ p = "ads" /\ s.kind = "arxiv"
       \/ p = "inspire" /\ s.kind = "native"
    THEN "swallow"
    ELSE IF s.kind = "title" THEN "propagate" ELSE "record"

\* Variant in which the DOI queries, too, sit in a catch that drops the exception.
OnThrow_DoiDropped(p, s) ==
    IF \/ p = "ads" /\ s.kind = "arxiv"
       \/ p = "inspire" /\ s.kind = "native"
       \/ s.kind = "doi"
    THEN "swallow"
    ELSE "record"

\* What the handler around a step does with an exception raised in it:
\* "swallow" (inner catch, go on with the next step) or "record" (outer
\* catch: result.error = error.message; return result).
OnThrow(p, s) ==
    IF \/ p = "ads" /\ s.kind = "arxiv"
       \/ p = "inspire" /\ s.kind = "native"
    THEN "swallow"
    ELSE "record"

\* Does the step go through client.lookupByDOI / lookupByArxiv / getRecord
\* (document or null) rather than a search ({documents, numFound})?
IsLookup(p, s) == p = "inspire" /\ s.kind # "title"

\* result.method and result.confidence of a step that accepts
MethodOf(p, s) ==
    CASE s.kind = "native" -> IF p = "ads" THEN "bibcode" ELSE "recid"
      [] s.kind = "doi" -> "doi"
      [] s.kind = "arxiv" -> "arxiv"
      [] s.kind = "title" -> "title"

ConfidenceOf(s) ==
    CASE s.kind = "native" -> Frac(100, 100)
      [] s.kind = "doi" -> Frac(99, 100)
      [] s.kind = "arxiv" -> Frac(98, 100)

\* Variant in which every identifier search wants exactly one result.
CountAccepted_ExactlyOne(s, numFound) == numFound = 1

\* Variant in which every identifier search accepts the first of several hits.
CountAccepted_AtLeastOne(s, numFound) == numFound >= 1

\* The test on numFound that lets an identifier search accept:
\* numFound === 1 for bibcode and doi, numFound >= 1 for arXiv.
CountAccepted(s, numFound) ==
    IF s.kind = "arxiv" THEN numFound >= 1 ELSE numFound = 1

Continue == [out |-> "continue", id |-> Null, method |-> "not_found", confidence |-> Zero]

\* Variant in which result.method is assigned ahead of the expression that throws.
BeforeThrow_MethodFirst(p, s) ==
    [id |-> Null, method |-> MethodOf(p, s), confidence |-> Zero]

\* The fields of `result` already assigned when an expression of step s
\* throws: none, every assignment follows the last expression that can throw
\* (result.bibcode = searchResult.documents[0].bibcode comes first).
BeforeThrow(p, s) == [id |-> Null, method |-> "not_found", confidence |-> Zero]

Thrown(p, s) ==
    [out |-> "throw", id |-> BeforeThrow(p, s).id, method |-> BeforeThrow(p, s).method,
     confidence |-> BeforeThrow(p, s).confidence]
Accept(id, method, confidence) ==
    [out |-> "accept", id |-> id, method |-> method, confidence |-> confidence]

\* const match = findBestMatch(entry, searchResult.documents); if (match) {...}
TitleOutcome(p, s, resp, m) ==
    CASE m.kind = "throw" -> Thrown(p, s)
      [] m.kind = "null" -> Continue
      [] m.kind = "match" -> Accept(resp.documents[m.idx].id, "title", m.confidence)

\* The code between the `await` of a step and the next step, for one response.
Process(p, s, resp, fields) ==
    IF resp.kind = "throw" THEN Thrown(p, s)
    ELSE IF IsLookup(p, s) THEN
        \* const doc = await client.lookupBy...(id); if (doc) {...}
        IF resp.kind = "doc" THEN Accept(resp.documents[1].id, MethodOf(p, s), ConfidenceOf(s))
        ELSE Continue
    ELSE IF resp.kind = "undefined" THEN Thrown(p, s)            \* searchResult.numFound
    ELSE IF s.kind = "title" THEN
        IF resp.numFound >= 1 THEN
            IF ~resp.hasDocs THEN Thrown(p, s)                   \* for (const doc of undefined)
            ELSE TitleOutcome(p, s, resp, findBestMatch(fields, resp.documents))
        ELSE Continue
    ELSE IF CountAccepted(s, resp.numFound) THEN
        IF ~resp.hasDocs \/ resp.documents = <<>> THEN Thrown(p, s)   \* documents[0].bibcode
        ELSE Accept(resp.documents[1].id, MethodOf(p, s), ConfidenceOf(s))
    ELSE Continue


(***************************************************************************)
(* Inputs.                                                                  *)
(***************************************************************************)
MaxEntries == 2     \* entries per batch
MaxSpecDocs == 1    \* documents in a response to the resolver's title search
MaxDocs == 2        \* documents handed to findBestMatch directly
MaxNumFound == 2    \* numFound of a response: 0, 1, several
MaxResults == 3     \* results handed to categorizeResults directly

CiteKeys == <<"k1", "k2", "k3", "k4">>
\* the input lists: entries with pairwise distinct cite keys
EntryLists == {[i \in 1..n |-> [citeKey |-> CiteKeys[i]]] : n \in 0..MaxEntries}
DocIds == {"id1"}
ErrMsg == "msg"

T_ab == <<"a","a","a"," ","b","b","b">>
T_a == <<"a","a","a">>
T_abc == T_ab \o <<" ","c","c","c">>
T_abcd == T_abc \o <<" ","d","d","d">>
T_cd == <<"c","c","c"," ","d","d","d">>
\* "{Aaa} $o$ \ab  Bbb of": normalizes to "aaa bbb of"
T_raw == <<"{","A","a","a","}"," ","$","o","$"," ","\\","a","b"," "," ","B","b","b"," ","o","f">>
Y2020 == <<"2","0","2","0">>
Y2021 == <<"2","0","2","1">>

Identifiers == [native : BOOLEAN, doi : BOOLEAN, arxiv : BOOLEAN]

\* entry.fields as resolveEntry reads it: title, author, year
SpecFields ==
    [title : {NoField, Field(T_ab)}, author : {NoField, Field(T_a)}, year : {Field(Y2020)}]

IdDocs == [id : DocIds, title : {NoTitle}, year : {0}]
Doc(id, title, year) == [id |-> id, title |-> title, year |-> year]
\* candidates of the title search for the entry title "aaa bbb": similarity
\* 2/3, similarity exactly 1/2 with the year bonus, and an ill-formed title
TitleDocs ==
    {Doc(d, ArrTitle(T_abc), 0) : d \in DocIds}
    \cup {Doc(d, StrTitle(T_a), 2020) : d \in DocIds}
    \cup {Doc(d, EmptyArrTitle, 0) : d \in DocIds}

\* rows asked of an identifier search and of the title search
IdRows == 1
TitleRows == 5
Min(a, b) == IF a < b THEN a ELSE b

ThrowResp == [kind |-> "throw", numFound |-> 0, hasDocs |-> FALSE, documents |-> <<>>]
UndefinedResp == [kind |-> "undefined", numFound |-> 0, hasDocs |-> FALSE, documents |-> <<>>]
NullResp == [kind |-> "null", numFound |-> 0, hasDocs |-> FALSE, documents |-> <<>>]
DocResp(d) == [kind |-> "doc", numFound |-> 1, hasDocs |-> TRUE, documents |-> <<d>>]
SearchResp(n, docs) == [kind |-> "result", numFound |-> n, hasDocs |-> TRUE, documents |-> docs]
NoDocsResp(n) == [kind |-> "result", numFound |-> n, hasDocs |-> FALSE, documents |-> <<>>]

\* What a search may do: throw, return undefined, or return {documents,
\* numFound}, well- or ill-formed.
SearchResponses(docLists) ==
    {ThrowResp, UndefinedResp}
    \cup {NoDocsResp(n) : n \in 0..MaxNumFound}
    \cup {SearchResp(n, docs) : n \in 0..MaxNumFound, docs \in docLists}

LookupResponses == {ThrowResp, NullResp} \cup {DocResp(d) : d \in IdDocs}
IdSearchResponses == SearchResponses(SeqUpTo(IdDocs, IdRows))
TitleSearchResponses == SearchResponses(SeqUpTo(TitleDocs, Min(TitleRows, MaxSpecDocs)))

\* Everything the capability may do with the call of step s.
Responses(p, s) ==
    IF capability = "failing" THEN {ThrowResp}
    ELSE IF IsLookup(p, s) THEN LookupResponses
    ELSE IF s.kind = "title" THEN TitleSearchResponses
    ELSE IdSearchResponses

\* How a response reads to the step that receives it.
Class(p, s, resp) ==
    CASE resp.kind = "throw" -> "throw"
      [] resp.kind = "doc" -> "hit"
      [] resp.kind = "null" -> "miss"
      [] resp.kind = "undefined" -> "malformed"
      [] resp.kind = "result" ->
            IF resp.numFound = 0 THEN "miss"
            ELSE IF ~resp.hasDocs \/ (s.kind # "title" /\ resp.documents = <<>>)
                 THEN "malformed"
            ELSE IF resp.numFound = 1 THEN "hit" ELSE "many"

(***************************************************************************)
(* The activation of resolveEntry for one entry, and the batch loop.        *)
(***************************************************************************)
NoIds == [native |-> FALSE, doi |-> FALSE, arxiv |-> FALSE]
NoFields == [title |-> NoField, author |-> NoField, year |-> NoField]

\* const result = {citeKey, entryType, bibcode: null, method: 'not_found', confidence: 0, fields}
NewResult(entry) ==
    [citeKey |-> entry.citeKey, id |-> Null, method |-> "not_found",
     confidence |-> Zero, error |-> Null]

NoResult == [citeKey |-> Null, id |-> Null, method |-> "not_found",
             confidence |-> Zero, error |-> Null]

NoStep == Step("none", 0)

\* pc, the pending step, the entry's identifiers and fields, the class of the
\* latest response and the step it answered, and the local `result`.
Idle == [pc |-> "idle", step |-> 0, ids |-> NoIds, fields |-> NoFields,
         last |-> "none", lastStep |-> NoStep, result |-> NoResult]
Released == [Idle EXCEPT !.pc = "done"]

N == Len(entries)

CurStep(i) == Order(provider)[res[i].step]

\* Leave step k of activation r: issue the next call whose guard holds, or
\* fall through to `return result` (not found).
Advance(r, k) ==
    LET n == NextStep(provider, k, r.ids, r.fields)
    IN  IF n = 0 THEN [r EXCEPT !.pc = "returned", !.step = 0]
        ELSE [r EXCEPT !.pc = "await", !.step = n]

\* The call a move from r to r2 issues, appended to the log.
Issued(log, r2) ==
    IF r2.pc = "await" THEN Append(log, Order(provider)[r2.step]) ELSE log

\* The activation with the fields of `result` that outcome o assigns.
Assigned(r, o) ==
    [r EXCEPT !.result.id = o.id, !.result.method = o.method,
              !.result.confidence = o.confidence]

\* An exception raised in step s, by the handler around the step.
Caught(part, s) ==
    CASE OnThrow(provider, s) = "swallow" -> Advance(part, part.step)
      [] OnThrow(provider, s) = "record" ->
            [part EXCEPT !.pc = "returned", !.result.error = ErrMsg]
      [] OTHER -> [part EXCEPT !.pc = "rejected"]

\* The activation after outcome o of its pending step s.
Settle(seen, s, o) ==
    CASE o.out = "accept" -> [Assigned(seen, o) EXCEPT !.pc = "returned"]
      [] o.out = "continue" -> Advance(seen, seen.step)
      [] o.out = "throw" -> Caught(Assigned(seen, o), s)

\* The activation after the response resp to its pending call.
AfterResponse(r, s, resp) ==
    Settle([r EXCEPT !.last = Class(provider, s, resp), !.lastStep = s],
           s, Process(provider, s, resp, r.fields))


\* Variant of the loop that does not await resolveEntry.
Settled_NoAwait(r) == r.pc \in {"await", "returned", "rejected"}

\* Variant that collects the results in reverse (unshift).
Push_Front(list, result) == <<result>> \o list

\* `await resolveEntry(...)`: the loop resumes once the activation has settled.
Settled(r) == r.pc \in {"returned", "rejected"}

\* results.push(result)
Push(list, result) == Append(list, result)

\* An activation that has returned or thrown is gone once its caller has
\* taken the outcome.
Release(r) == IF r.pc \in {"returned", "rejected"} THEN Released ELSE r

\* Activation i has run on to r2, issuing the call r2 waits for, if any.
Resumed(i, r2) ==
    /\ res' = [res EXCEPT ![i] = r2]
    /\ calls' = [calls EXCEPT ![i] = Issued(@, r2)]

\* The entries resolveEntry is called with: what it reads of each, and the
\* entry whose fields object is empty ({ citeKey, entryType, fields: {} }),
\* which has no identifier either, identifiers being read from the fields.
EntryInputs ==
    [ids : Identifiers, fields : SpecFields] \cup {[ids |-> NoIds, fields |-> NoFields]}

\* for (...) { const result = await resolveEntry(entries[i], searchFn);
\* the call runs resolveEntry up to its first await: extractIdentifiers, the
\* fresh result, and the first capability call whose guard holds.
LoopCall ==
    /\ loop.pc = "call" /\ loop.i <= N
    /\ res[loop.i].pc = "idle"
    /\ \E e \in EntryInputs :
         Resumed(loop.i, Advance([Idle EXCEPT !.ids = e.ids, !.fields = e.fields,
                                              !.result = NewResult(entries[loop.i])], 0))
    /\ loop' = [loop EXCEPT !.pc = "awaitResult"]
    /\ UNCHANGED <<provider, capability, entries, onProgress, delayMs, results, progress, delays,
                   match, cat,
                   fn, net, store>>

\* The capability answers the pending call of entry i, which is of the given
\* kind; resolveEntry runs on to its next call or to its return.
Respond(i, kind) ==
    /\ res[i].pc = "await"
    /\ CurStep(i).kind = kind
    /\ \E resp \in Responses(provider, CurStep(i)) :
         Resumed(i, AfterResponse(res[i], CurStep(i), resp))
    /\ UNCHANGED <<provider, capability, entries, onProgress, delayMs, loop, results, progress,
                   delays, match, cat,
                   fn, net, store>>

NativeIdStep == \E i \in 1..N : Respond(i, "native")
DoiStep == \E i \in 1..N : Respond(i, "doi")
ArxivStep == \E i \in 1..N : Respond(i, "arxiv")
TitleStep == \E i \in 1..N : Respond(i, "title")

\* Variant that reports the zero-based index i instead of i + 1.
Report_ZeroBased(log, i, result) == Append(log, <<i - 1, N, result>>)

\* if (onProgress) onProgress(i + 1, entries.length, result), with i counted
\* from 1 here: the invocation is logged with its arguments.
Report(log, i, result) == Append(log, <<i, N, result>>)

\* Variant that delays after every entry, the last one included.
DelayDue_AfterLast(i) == delayMs > 0

\* if (i < entries.length - 1 && delayMs > 0), with i counted from 1 here
DelayDue(i) == i < N /\ delayMs > 0

\* The loop body after the await: results.push(result); onProgress(i + 1,
\* entries.length, result); then the delay, unless this was the last entry.
\* A rejected resolveEntry makes resolveEntries reject.
LoopResume ==
    /\ loop.pc = "awaitResult"
    /\ Settled(res[loop.i])
    /\ LET i == loop.i
           r == res[i]
       IN  IF r.pc = "rejected"
           THEN /\ loop' = [loop EXCEPT !.pc = "failed"]
                /\ UNCHANGED <<res, calls, results, progress>>
           ELSE /\ results' = Push(results, r.result)
                /\ progress' = IF onProgress THEN Report(progress, i, r.result)
                               ELSE progress
                /\ res' = [res EXCEPT ![i] = Release(r)]
                /\ calls' = [calls EXCEPT ![i] = IF Release(r) = r THEN @ ELSE <<>>]
                /\ loop' = IF DelayDue(i)
                           THEN [loop EXCEPT !.pc = "awaitDelay"]
                           ELSE [pc |-> "call", i |-> i + 1]
    /\ UNCHANGED <<provider, capability, entries, onProgress, delayMs, delays, match, cat,
                   fn, net, store>>

\* await delay(delayMs): the timer fires.
LoopDelay ==
    /\ loop.pc = "awaitDelay"
    /\ delays' = Append(delays, loop.i)
    /\ loop' = [pc |-> "call", i |-> loop.i + 1]
    /\ UNCHANGED <<provider, capability, entries, onProgress, delayMs, res, calls, results,
                   progress, match, cat,
                   fn, net, store>>

\* return results
LoopReturn ==
    /\ loop.pc = "call" /\ loop.i > N
    /\ loop' = [loop EXCEPT !.pc = "done"]
    /\ UNCHANGED <<provider, capability, entries, onProgress, delayMs, res, calls, results,
                   progress, delays, match, cat,
                   fn, net, store>>

\* the parts of the state that a specification leaves out
FnOff == [pc |-> "off"]
NetOff == [pc |-> "off"]
StoreOff == [pc |-> "off"]

NoOut == [kind |-> "null", idx |-> 0, confidence |-> Zero]
MatchOff == [pc |-> "off", fields |-> NoFields, documents |-> <<>>, out |-> NoOut]

NoStats == [total |-> 0, foundCount |-> 0, notFoundCount |-> 0, errorCount |-> 0,
            byMethod |-> <<>>]
CatOff == [pc |-> "off", input |-> <<>>, found |-> <<>>, notFound |-> <<>>,
           errors |-> <<>>, stats |-> NoStats]

Init ==
    /\ provider \in {"ads", "inspire"}
    /\ capability \in {"arbitrary", "failing"}
    /\ entries \in EntryLists
    /\ onProgress \in BOOLEAN
    /\ delayMs \in {0, 150}
    /\ loop = [pc |-> "call", i |-> 1]
    /\ res = [i \in 1..Len(entries) |-> Idle]
    /\ calls = [i \in 1..Len(entries) |-> <<>>]
    /\ results = <<>>
    /\ progress = <<>>
    /\ delays = <<>>
    /\ match = MatchOff
    /\ cat = CatOff
    /\ fn = FnOff
    /\ net = NetOff
    /\ store = StoreOff

Next ==
    \/ LoopCall
    \/ NativeIdStep
    \/ DoiStep
    \/ ArxivStep
    \/ TitleStep
    \/ LoopResume
    \/ LoopDelay
    \/ LoopReturn

Spec == Init /\ [][Next]_vars


(***************************************************************************)
(* findBestMatch on its own: the inputs are drawn in MatchInit, MatchRun    *)
(* applies the function.                                                    *)
(***************************************************************************)
T_abcdf == T_abcd \o <<" ","f","f","f">>

MatchFields ==
    [title : {NoField, Field(T_ab), Field(T_abcd), Field(T_raw)},
     author : {NoField},
     year : {NoField, Field(Y2020)}]

MatchDocs ==
    {Doc("id1", t, y) :
        t \in {StrTitle(T_a), ArrTitle(T_abc), StrTitle(T_abcd), StrTitle(T_abcdf), NoTitle},
        y \in {0, 2020}}
    \cup {Doc("id1", StrTitle(T_ab), 2021)}

MatchInit ==
    /\ provider \in {"ads", "inspire"}
    /\ capability = "arbitrary"
    /\ entries = <<>>
    /\ onProgress = FALSE
    /\ delayMs = 0
    /\ loop = [pc |-> "off", i |-> 1]
    /\ res = <<>>
    /\ calls = <<>>
    /\ results = <<>>
    /\ progress = <<>>
    /\ delays = <<>>
    /\ match \in [pc : {"ready"}, fields : MatchFields,
                  documents : SeqUpTo(MatchDocs, MaxDocs), out : {NoOut}]
    /\ cat = CatOff
    /\ fn = FnOff
    /\ net = NetOff
    /\ store = StoreOff

MatchRun ==
    /\ match.pc = "ready"
    /\ match' = [match EXCEPT !.pc = "done",
                              !.out = findBestMatch(match.fields, match.documents)]
    /\ UNCHANGED <<provider, capability, entries, onProgress, delayMs, loop, res, calls,
                   results, progress, delays, cat,
                   fn, net, store>>

SpecMatch == MatchInit /\ [][MatchRun]_vars

(***************************************************************************)
(* categorizeResults on its own.                                            *)
(***************************************************************************)
\* r.bibcode !== null / r.recid !== null
IsFound(r) == r.id # Null

\* Variant with the ADS test for both resolvers.
IsNotFound_NullId(p, r) == r.id = Null

\* ADS: r.bibcode === null;  INSPIRE: r.recid === null && !r.error
IsNotFound(p, r) ==
    IF p = "ads" THEN r.id = Null
    ELSE r.id = Null /\ r.error = Null

\* r.error (truthy)
HasError(r) == r.error # Null

Methods(p) ==
    IF p = "ads" THEN <<"bibcode", "doi", "arxiv", "title">>
    ELSE <<"doi", "arxiv", "recid", "title">>

categorizeResults(p, list) ==
    LET found == SelectSeq(list, IsFound)
        notFound == SelectSeq(list, LAMBDA r : IsNotFound(p, r))
        errors == SelectSeq(list, HasError)
    IN  [found |-> found, notFound |-> notFound, errors |-> errors,
         stats |-> [total |-> Len(list),
                    foundCount |-> Len(found),
                    notFoundCount |-> Len(notFound),
                    errorCount |-> Len(errors),
                    byMethod |-> [k \in 1..Len(Methods(p)) |->
                        Len(SelectSeq(found, LAMBDA r : r.method = Methods(p)[k]))]]]

CatResults ==
    [citeKey : {"k1"}, id : {Null, "id1"}, method : {"not_found", "doi"},
     confidence : {Zero}, error : {Null, ErrMsg}]

CatInit ==
    /\ provider \in {"ads", "inspire"}
    /\ capability = "arbitrary"
    /\ entries = <<>>
    /\ onProgress = FALSE
    /\ delayMs = 0
    /\ loop = [pc |-> "off", i |-> 1]
    /\ res = <<>>
    /\ calls = <<>>
    /\ results = <<>>
    /\ progress = <<>>
    /\ delays = <<>>
    /\ match = MatchOff
    /\ cat \in [pc : {"ready"}, input : SeqUpTo(CatResults, MaxResults),
                found : {<<>>}, notFound : {<<>>}, errors : {<<>>}, stats : {NoStats}]
    /\ fn = FnOff
    /\ net = NetOff
    /\ store = StoreOff

CatRun ==
    /\ cat.pc = "ready"
    /\ LET c == categorizeResults(provider, cat.input)
       IN  cat' = [cat EXCEPT !.pc = "done", !.found = c.found, !.notFound = c.notFound,
                              !.errors = c.errors, !.stats = c.stats]
    /\ UNCHANGED <<provider, capability, entries, onProgress, delayMs, loop, res, calls,
                   results, progress, delays, match,
                   fn, net, store>>

SpecCat == CatInit /\ [][CatRun]_vars


(***************************************************************************)
(* calculateTitleSimilarity on its own (specification SpecSim).             *)
(***************************************************************************)
\* the resolver part of the state, and its value in the other specifications
resolverVars ==
    <<capability, entries, onProgress, delayMs, loop, res, calls, results, progress, delays>>

ResolverOff ==
    /\ capability = "arbitrary"
    /\ entries = <<>>
    /\ onProgress = FALSE
    /\ delayMs = 0
    /\ loop = [pc |-> "off", i |-> 1]
    /\ res = <<>>
    /\ calls = <<>>
    /\ results = <<>>
    /\ progress = <<>>
    /\ delays = <<>>

MaxWords == 3    \* space-separated pieces of a title

\* pieces of a title: two words that count, one too short to count
Pieces == {<<"a","a","a">>, <<"b","b","b","b">>, <<"a","b">>}

\* pieces.join(' ')
Join(pieces) ==
    LET RECURSIVE J(_)
        J(k) == IF k = 0 THEN <<>>
                ELSE IF k = 1 THEN pieces[1]
                ELSE J(k - 1) \o <<" ">> \o pieces[k]
    IN  J(Len(pieces))

SimTitles == {Join(ps) : ps \in SeqUpTo(Pieces, MaxWords)}

SimInit ==
    /\ provider \in {"ads", "inspire"}
    /\ ResolverOff
    /\ match = MatchOff
    /\ cat = CatOff
    /\ fn \in [pc : {"ready"}, a : SimTitles, b : SimTitles, out : {Zero}, rev : {Zero}]
    /\ net = NetOff
    /\ store = StoreOff

\* calculateTitleSimilarity(a, b) and calculateTitleSimilarity(b, a)
SimRun ==
    /\ fn.pc = "ready"
    /\ fn' = [fn EXCEPT !.pc = "done",
                        !.out = calculateTitleSimilarity(fn.a, fn.b),
                        !.rev = calculateTitleSimilarity(fn.b, fn.a)]
    /\ UNCHANGED <<provider, resolverVars, match, cat, net, store>>

SpecSim == SimInit /\ [][SimRun]_vars

(***************************************************************************)
(* normalizeTitle on its own (specification SpecNorm).                      *)
(***************************************************************************)
MaxTitleLen == 4    \* characters of a raw title

\* a lower-case and an upper-case letter, a digit, the characters of inline
\* math, commands and braces, punctuation, and two kinds of whitespace
TitleChars == {"a", "A", "1", "$", "\\", "{", "-", " ", "\t"}

NormInit ==
    /\ provider \in {"ads", "inspire"}
    /\ ResolverOff
    /\ match = MatchOff
    /\ cat = CatOff
    /\ fn \in [pc : {"ready"}, s : SeqUpTo(TitleChars, MaxTitleLen),
                out : {<<>>}, again : {<<>>}]
    /\ net = NetOff
    /\ store = StoreOff

\* normalizeTitle(s) and normalizeTitle(normalizeTitle(s))
NormRun ==
    /\ fn.pc = "ready"
    /\ fn' = [fn EXCEPT !.pc = "done",
                        !.out = normalizeTitle(fn.s),
                        !.again = normalizeTitle(normalizeTitle(fn.s))]
    /\ UNCHANGED <<provider, resolverVars, match, cat, net, store>>

SpecNorm == NormInit /\ [][NormRun]_vars

(***************************************************************************)
(* buildTitleAuthorQuery on its own (specification SpecQuery).              *)
(***************************************************************************)
\* title.replace(/[{}]/g, '').replace(/"/g, '').replace(/\$[^$]*\$/g, '')
\*      .replace(/\\[a-zA-Z]+\s*/g, '').replace(/\s+/g, ' ').trim()
CleanTitle(title) ==
    Trim(CollapseWhitespace(RemoveCommands(RemoveMath(
        RemoveChars(RemoveChars(title, {"{", "}"}), {"\""})))))

\* .slice(0, 6) for ADS, .slice(0, 5) for INSPIRE
SliceWords(p) == IF p = "ads" THEN 6 ELSE 5

\* cleanTitle.split(/\s+/).filter(w => w.length >= 3 && /^[a-zA-Z]/.test(w))
\*           .slice(0, n)
QueryWords(p, title) ==
    LET ws == SelectSeq(SplitSpace(CleanTitle(title)),
                        LAMBDA w : Len(w) >= 3 /\ w[1] \in Letters)
    IN  SubSeq(ws, 1, IF Len(ws) < SliceWords(p) THEN Len(ws) ELSE SliceWords(p))

\* s, lower-cased, reads word from index i on.
ReadsAt(s, i, word) ==
    /\ i + Len(word) - 1 <= Len(s)
    /\ \A k \in 1..Len(word) : ToLowerChar(s[i + k - 1]) = word[k]

\* The end of a match of /\s+and\s+others/i that starts at index i of s, or 0.
AndOthersEnd(s, i) ==
    IF i > Len(s) \/ s[i] \notin Whitespace THEN 0
    ELSE LET j == SkipWhile(s, i, Whitespace)
         IN  IF ~ReadsAt(s, j, <<"a","n","d">>) THEN 0
             ELSE IF j + 3 > Len(s) \/ s[j + 3] \notin Whitespace THEN 0
             ELSE LET k == SkipWhile(s, j + 3, Whitespace)
                  IN  IF ReadsAt(s, k, <<"o","t","h","e","r","s">>) THEN k + 5 ELSE 0

\* s.replace(/\s+and\s+others/i, ''): the leftmost match is dropped.
RemoveAndOthers(s) ==
    IF \E i \in 1..Len(s) : AndOthersEnd(s, i) > 0
    THEN LET i == CHOOSE i \in 1..Len(s) :
                      AndOthersEnd(s, i) > 0 /\ \A h \in 1..(i-1) : AndOthersEnd(s, h) = 0
         IN  SubSeq(s, 1, i - 1) \o SubSeq(s, AndOthersEnd(s, i) + 1, Len(s))
    ELSE s

\* author.match(/^([^,]+)/): the text before the first comma; no match when
\* the author begins with a comma or is empty.  Then braces are removed, the
\* text is trimmed, " and others" is removed and the text trimmed again.
FirstAuthor(author) ==
    LET n == SkipWhile(author, 1, Range(author) \ {","}) - 1
    IN  IF n = 0 THEN <<>>
        ELSE Trim(RemoveAndOthers(Trim(RemoveChars(SubSeq(author, 1, n), {"{", "}"}))))

\* titleWords.map(w => `title:${w}`).join(' ') for ADS,
\* `t ${titleWords.join(' ')}` for INSPIRE
TitleClause(p, words) ==
    IF p = "ads"
    THEN Join([k \in 1..Len(words) |-> <<"t","i","t","l","e",":">> \o words[k]])
    ELSE <<"t"," ">> \o Join(words)

\* ` author:"${firstAuthor}"` for ADS, ` and a ${firstAuthor}` for INSPIRE
AuthorClause(p, firstAuthor) ==
    IF p = "ads"
    THEN <<" ","a","u","t","h","o","r",":","\"">> \o firstAuthor \o <<"\"">>
    ELSE <<" ","a","n","d"," ","a"," ">> \o firstAuthor

\* ` year:${year}` for ADS, ` and date ${year}` for INSPIRE
YearClause(p, year) ==
    IF p = "ads"
    THEN <<" ","y","e","a","r",":">> \o year
    ELSE <<" ","a","n","d"," ","d","a","t","e"," ">> \o year

buildTitleAuthorQuery(p, title, author, year) ==
    LET titleWords == QueryWords(p, title)
        firstAuthor == FirstAuthor(author)
        q0 == IF Len(titleWords) > 0 THEN TitleClause(p, titleWords) ELSE <<>>
        q1 == IF firstAuthor # <<>> THEN q0 \o AuthorClause(p, firstAuthor) ELSE q0
        q2 == IF Truthy(year) THEN q1 \o YearClause(p, year.text) ELSE q1
    IN  Trim(q2)

\* titles: up to MaxWords pieces, seven words that count, a title of braces,
\* math and a command only, a word that begins with a digit, the empty title
QueryTitles ==
    SimTitles
    \cup {Join([k \in 1..7 |-> <<"a","a","a">>]),
          <<"{","$","a","a","a","$","}"," ","\\","a","b">>,
          <<"1","a","a","a">>,
          <<>>}

\* authors: "Aaa, B", "{Aaa} and others", "Aaa and Bbb, A", ", B", "{}", ""
QueryAuthors ==
    {<<"A","a","a",","," ","B">>,
     <<"{","A","a","a","}"," ","a","n","d"," ","o","t","h","e","r","s">>,
     <<"A","a","a"," ","a","n","d"," ","B","b","b",","," ","A">>,
     <<",", " ", "B">>,
     <<"{","}">>,
     <<>>}

QueryInit ==
    /\ provider \in {"ads", "inspire"}
    /\ ResolverOff
    /\ match = MatchOff
    /\ cat = CatOff
    /\ fn \in [pc : {"ready"}, title : QueryTitles, author : QueryAuthors,
               year : {NoField, Field(Y2020)}, out : {<<>>}]
    /\ net = NetOff
    /\ store = StoreOff

\* buildTitleAuthorQuery(title, author, year)
QueryRun ==
    /\ fn.pc = "ready"
    /\ fn' = [fn EXCEPT !.pc = "done",
                        !.out = buildTitleAuthorQuery(provider, fn.title, fn.author, fn.year)]
    /\ UNCHANGED <<provider, resolverVars, match, cat, net, store>>

SpecQuery == QueryInit /\ [][QueryRun]_vars

(***************************************************************************)
(* The API clients (lib/inspire-api.js): the module-level rateLimiter and   *)
(* request(), called by several callers at once (specification SpecNet).    *)
(* Time is in milliseconds; the clock moves in steps of one second, of      *)
(* which every delay of the code is a multiple.                             *)
(***************************************************************************)
NumCallers == 2       \* concurrent callers of request()
MaxFailures == 1      \* 429 and network-error responses the servers give the concurrent callers
MaxTicks == 5         \* seconds the clock runs
LimitRequests == 1    \* RATE_LIMIT.maxRequests, scaled down from 10 (ADS) and 12 (INSPIRE)

RetryAfterMs == 1000  \* RATE_LIMIT.retryAfterMs
MaxRetries == 3       \* RATE_LIMIT.maxRetries

\* RATE_LIMIT.windowMs
WindowMs(p) == IF p = "ads" THEN 1000 ELSE 5000

\* parseInt(response.headers.get('Retry-After') || '1', 10) * 1000, the
\* default being '5' for INSPIRE; the header, when present, says 2 here
RetryAfterValues(p) == {IF p = "ads" THEN 1000 ELSE 5000, 2000}

Callers == DOMAIN net.callers

\* a caller of request(): where it is, its retryCount, when its timer is
\* due, the oldest request it found in a full window on arriving in
\* throttle() (-1: none), the waits before its retries after network errors,
\* and how its latest fetch ended;
\* net.admitted logs every admission: its time, and what had blocked the caller
NewCaller ==
    [pc |-> "idle", retry |-> 0, wake |-> 0, blockedBy |-> -1, waits |-> <<>>,
     outcome |-> "none"]

\* this.requests.filter(t => now - t < RATE_LIMIT.windowMs)
InWindow(requests, now) == SelectSeq(requests, LAMBDA t : now - t < WindowMs(provider))

\* Variant of the window test with the limit off by one.
WindowFull_OneMore(kept) == Len(kept) >= LimitRequests + 1

\* this.requests.length >= RATE_LIMIT.maxRequests
WindowFull(kept) == Len(kept) >= LimitRequests

\* Variant that waits for half the remaining time only.
WaitTime_Half(now, oldest) == (WindowMs(provider) - (now - oldest)) \div 2

\* const waitTime = RATE_LIMIT.windowMs - (now - this.requests[0])
WaitTime(now, oldest) == WindowMs(provider) - (now - oldest)

\* rateLimiter.throttle() run by caller c up to its await or its end:
\* either the window is full and the caller waits, or the request is
\* admitted (this.requests.push(now)) and the fetch goes out.
Throttle(n, c, kept) ==
    IF WindowFull(kept)
    THEN [n EXCEPT !.requests = kept,
                   !.callers[c].pc = "throttled",
                   !.callers[c].wake = n.now + WaitTime(n.now, kept[1]),
                   !.callers[c].blockedBy = IF @ = -1 THEN kept[1] ELSE @]
    ELSE [n EXCEPT !.requests = Append(kept, n.now),
                   !.callers[c].pc = "fetching",
                   !.callers[c].wake = 0,
                   !.callers[c].blockedBy = -1,
                   !.admitted = Append(@, [at |-> n.now,
                                           blockedBy |-> n.callers[c].blockedBy])]

\* request(endpoint, options, retryCount) from its start: await rateLimiter.throttle()
Enter(n, c) == Throttle(n, c, InWindow(n.requests, n.now))

NetInit ==
    /\ provider \in {"ads", "inspire"}
    /\ ResolverOff
    /\ match = MatchOff
    /\ cat = CatOff
    /\ fn = FnOff
    /\ net = [now |-> 0, requests |-> <<>>, callers |-> [c \in 1..NumCallers |-> NewCaller],
              admitted |-> <<>>, failures |-> MaxFailures]
    /\ store = StoreOff

NetUnchanged == UNCHANGED <<provider, resolverVars, match, cat, fn, store>>

\* One caller of request() whose fetches may fail until its retries run out.
RetryInit ==
    /\ provider \in {"ads", "inspire"}
    /\ ResolverOff
    /\ match = MatchOff
    /\ cat = CatOff
    /\ fn = FnOff
    /\ net = [now |-> 0, requests |-> <<>>, callers |-> [c \in {1} |-> NewCaller],
              admitted |-> <<>>, failures |-> MaxRetries + 1]
    /\ store = StoreOff

\* a caller calls client.request(endpoint); the callers are numbered in the
\* order of their calls
Request(c) ==
    /\ net.callers[c].pc = "idle"
    /\ \A d \in 1..(c - 1) : net.callers[d].pc # "idle"
    /\ net' = Enter(net, c)
    /\ NetUnchanged

\* the timer of a throttled caller fires: return this.throttle()
ThrottleWake(c) ==
    /\ net.callers[c].pc = "throttled"
    /\ net.now >= net.callers[c].wake
    /\ net' = Enter(net, c)
    /\ NetUnchanged

\* the fetch succeeds: return await response.json()
FetchOk(c) ==
    /\ net.callers[c].pc = "fetching"
    /\ net' = [net EXCEPT !.callers[c].pc = "done", !.callers[c].outcome = "ok"]
    /\ NetUnchanged

\* the response is 429: with retries left, wait Retry-After seconds and
\* call request again; otherwise throw the HTTP error
FetchRateLimited(c) ==
    /\ net.callers[c].pc = "fetching"
    /\ net.failures > 0
    /\ \E retryAfter \in RetryAfterValues(provider) :
         net' = IF net.callers[c].retry < MaxRetries
                THEN [net EXCEPT !.failures = @ - 1,
                                 !.callers[c].pc = "retrying",
                                 !.callers[c].outcome = "429",
                                 !.callers[c].wake = net.now + retryAfter]
                ELSE [net EXCEPT !.failures = @ - 1, !.callers[c].pc = "failed",
                                 !.callers[c].outcome = "429"]
    /\ NetUnchanged

\* the response has another error status: throw new INSPIREError / ADSError
FetchHttpError(c) ==
    /\ net.callers[c].pc = "fetching"
    /\ net' = [net EXCEPT !.callers[c].pc = "failed", !.callers[c].outcome = "http"]
    /\ NetUnchanged

\* the 30 s timer aborts the fetch, which rejects with an AbortError: throw
\* 'Request timed out. Please try again.'
FetchTimeout(c) ==
    /\ net.callers[c].pc = "fetching"
    /\ net' = [net EXCEPT !.callers[c].pc = "failed", !.callers[c].outcome = "timeout"]
    /\ NetUnchanged

\* Variant that doubles the wait with each retry.
RetryWait_Doubling(retryCount) == RetryAfterMs * (2 ^ retryCount)

\* the wait before retrying after a network error: RATE_LIMIT.retryAfterMs
RetryWait(retryCount) == RetryAfterMs

\* fetch rejects with a network error (or the body of the response does not
\* parse): with retries left, wait and call request again; otherwise throw
\* 'Network error: ...'
FetchNetworkError(c) ==
    /\ net.callers[c].pc = "fetching"
    /\ net.failures > 0
    /\ net' = IF net.callers[c].retry < MaxRetries
              THEN [net EXCEPT !.failures = @ - 1,
                               !.callers[c].pc = "retrying",
                               !.callers[c].outcome = "network",
                               !.callers[c].wake = net.now + RetryWait(net.callers[c].retry),
                               !.callers[c].waits = Append(@, RetryWait(net.callers[c].retry))]
              ELSE [net EXCEPT !.failures = @ - 1, !.callers[c].pc = "failed",
                               !.callers[c].outcome = "network"]
    /\ NetUnchanged

\* Variant that calls request again with the same retryCount.
RetryWake_SameCount(c) ==
    /\ net.callers[c].pc = "retrying"
    /\ net.now >= net.callers[c].wake
    /\ net' = Enter(net, c)
    /\ NetUnchanged

\* the retry timer fires: return this.request(endpoint, options, retryCount + 1)
RetryWake(c) ==
    /\ net.callers[c].pc = "retrying"
    /\ net.now >= net.callers[c].wake
    /\ net' = Enter([net EXCEPT !.callers[c].retry = @ + 1], c)
    /\ NetUnchanged

\* a second passes
Tick ==
    /\ net.now < MaxTicks * 1000
    /\ net' = [net EXCEPT !.now = @ + 1000]
    /\ NetUnchanged

NetNext ==
    \/ \E c \in Callers : Request(c)
    \/ \E c \in Callers : ThrottleWake(c)
    \/ \E c \in Callers : FetchOk(c)
    \/ \E c \in Callers : FetchRateLimited(c)
    \/ \E c \in Callers : FetchHttpError(c)
    \/ \E c \in Callers : FetchTimeout(c)
    \/ \E c \in Callers : FetchNetworkError(c)
    \/ \E c \in Callers : RetryWake(c)
    \/ Tick

SpecNet == NetInit /\ [][NetNext]_vars

SpecRetry == RetryInit /\ [][NetNext]_vars

\* One call of request() from its start to its end: timers fire when due
\* and every fetch settles.
MaxFetchTicks == 3    \* seconds the clock runs while fetches are in flight

\* a second passes while the call waits for a timer that is not yet due
WaitTick ==
    /\ \E c \in Callers : net.callers[c].pc \in {"throttled", "retrying"}
                            /\ net.now < net.callers[c].wake
    /\ net' = [net EXCEPT !.now = @ + 1000]
    /\ NetUnchanged

\* a second passes while a fetch is in flight
FetchTick ==
    /\ \E c \in Callers : net.callers[c].pc = "fetching"
    /\ net.now < MaxFetchTicks * 1000
    /\ net' = [net EXCEPT !.now = @ + 1000]
    /\ NetUnchanged

CallNext ==
    \/ \E c \in Callers : Request(c)
    \/ \E c \in Callers : ThrottleWake(c)
    \/ \E c \in Callers : FetchOk(c)
    \/ \E c \in Callers : FetchRateLimited(c)
    \/ \E c \in Callers : FetchHttpError(c)
    \/ \E c \in Callers : FetchTimeout(c)
    \/ \E c \in Callers : FetchNetworkError(c)
    \/ \E c \in Callers : RetryWake(c)
    \/ WaitTick
    \/ FetchTick

SpecCall == RetryInit /\ [][CallNext]_vars /\ WF_vars(CallNext)

(***************************************************************************)
(* The ADS extension's storage wrapper and its library handlers (Storage    *)
(* in unnamed/part_007, the background handlers listed in RELEASE_NOTES.md).*)
(* chrome.storage.local is a map from key to value; a key that is not set   *)
(* reads as undefined.  An optional value is a sequence of length at most   *)
(* one: <<>> is undefined or null, <<v>> is the value v.  One handler runs  *)
(* at a time; the clock may advance while it waits.  getClient() finds the  *)
(* token configured.  Time is counted in minutes.                           *)
(***************************************************************************)
MaxClock == 6         \* minutes the clock runs
MaxLibs == 2          \* libraries on the server, and documents in the library
LibraryTTL == 5       \* CACHE_CONFIG.libraryTTL
DocumentsTTL == 5     \* CACHE_CONFIG.documentsTTL
\* Date.now() when the model starts: later than a TTL after the epoch
StartTime == 2 * LibraryTTL

Undefined == <<>>
Some(v) == <<v>>

LibraryIds == {"L1"}
DocsKey(libraryId) == "libDocs_" \o libraryId
DocsTimeKey(libraryId) == "libDocsTime_" \o libraryId
StorageKeys ==
    {"librariesCache", "librariesCacheTime", "libraries", "librariesTime"}
        \cup {DocsKey(id) : id \in LibraryIds} \cup {DocsTimeKey(id) : id \in LibraryIds}

\* browserStorage.set(items) and browserStorage.remove(keys)
StorageSet(data, items) ==
    [k \in DOMAIN data |-> IF k \in DOMAIN items THEN Some(items[k]) ELSE data[k]]
StorageRemove(data, keys) ==
    [k \in DOMAIN data |-> IF k \in keys THEN Undefined ELSE data[k]]

\* Variant in which an entry of exactly the TTL's age still counts as fresh.
Fresh_Inclusive(cacheAge, ttl) == cacheAge <= ttl
\* cacheAge < CACHE_CONFIG.libraryTTL
Fresh(cacheAge, ttl) == cacheAge < ttl

\* Variant in which an empty list counts as no list.
IsSet_NonEmpty(v) == v # Undefined /\ v[1] # <<>>
\* result.librariesCache as a condition: an array is truthy, empty or not
IsSet(v) == v # Undefined

\* result.librariesCacheTime || 0
OrZero(t) == IF t = Undefined THEN 0 ELSE t[1]

CacheLookup(data, now, key, timeKey, ttl) ==
    IF Fresh(now - OrZero(data[timeKey]), ttl) /\ IsSet(data[key])
    THEN data[key]
    ELSE Undefined

getCachedLibraries(data, now) ==
    CacheLookup(data, now, "librariesCache", "librariesCacheTime", LibraryTTL)
getCachedLibraryDocs(data, now, libraryId) ==
    CacheLookup(data, now, DocsKey(libraryId), DocsTimeKey(libraryId), DocumentsTTL)

setCachedLibraries(data, now, libraries) ==
    StorageSet(data, [k \in {"librariesCache", "librariesCacheTime"} |->
                        IF k = "librariesCache" THEN libraries ELSE now])
setCachedLibraryDocs(data, now, libraryId, docs) ==
    StorageSet(data, [k \in {DocsKey(libraryId), DocsTimeKey(libraryId)} |->
                        IF k = DocsKey(libraryId) THEN docs ELSE now])

\* The keys addToLibrary and createLibrary remove after the API call.
AddToLibraryRemoves(libraryId) == {DocsKey(libraryId), DocsTimeKey(libraryId)}
CreateLibraryRemoves == {"libraries", "librariesTime"}

\* What the server lists: n libraries, or n documents of the library.
Listing(n) == [k \in 1..n |-> k]

\* A handler in flight or finished: where it stands, whether it was forced,
\* what it returned and when, and whether it began after a modification of
\* the data it asks for that no fetch has followed yet.
OpIdle ==
    [name |-> "none", pc |-> "idle", id |-> "L1", force |-> FALSE, arg |-> <<>>,
     result |-> Undefined, fromCache |-> FALSE, at |-> 0, afterModify |-> FALSE]
NewOp(name, pc) == [OpIdle EXCEPT !.name = name, !.pc = pc]
OpFree == store.op.pc \in {"idle", "returned", "rejected"}
Returned(s, result, fromCache) ==
    [s EXCEPT !.op.pc = "returned", !.op.result = result,
              !.op.fromCache = fromCache, !.op.at = s.now]

\* store.stored is the list setCachedLibraries stored last and the time of
\* that call; libsModified and docsModified say that createLibrary or
\* addToLibrary succeeded and nothing was fetched since.
CacheInit ==
    /\ provider = "ads"
    /\ ResolverOff
    /\ match = MatchOff
    /\ cat = CatOff
    /\ fn = FnOff
    /\ net = NetOff
    /\ store = [now |-> StartTime,
                data |-> [k \in StorageKeys |-> Undefined],
                libs |-> 0, docs |-> 0,
                op |-> OpIdle,
                stored |-> Undefined,
                libsModified |-> FALSE, docsModified |-> FALSE]

CacheUnchanged == UNCHANGED <<provider, resolverVars, match, cat, fn, net>>

\* Storage.getCachedLibraries(), called directly.
GetCachedLibrariesCall ==
    /\ OpFree
    /\ store' = [store EXCEPT !.op = NewOp("getCachedLibraries", "get")]
    /\ CacheUnchanged

GetCachedLibrariesReturn ==
    /\ store.op.name = "getCachedLibraries" /\ store.op.pc = "get"
    /\ store' = Returned(store, getCachedLibraries(store.data, store.now), TRUE)
    /\ CacheUnchanged

\* Storage.setCachedLibraries(libraries), called directly.
SetCachedLibrariesCall ==
    /\ OpFree
    /\ \E n \in 0..MaxLibs :
         store' = [store EXCEPT
                     !.op = NewOp("setCachedLibraries", "set"),
                     !.data = setCachedLibraries(store.data, store.now, Listing(n)),
                     !.stored = Some([list |-> Listing(n), at |-> store.now])]
    /\ CacheUnchanged

SetCachedLibrariesReturn ==
    /\ store.op.name = "setCachedLibraries" /\ store.op.pc = "set"
    /\ store' = Returned(store, Undefined, FALSE)
    /\ CacheUnchanged

\* getLibraries(forceRefresh) and getLibraryDocuments(libraryId, forceRefresh)
GetLibrariesCall ==
    /\ OpFree
    /\ \E force \in BOOLEAN :
         store' = [store EXCEPT
                     !.op = [NewOp("getLibraries", IF force THEN "api" ELSE "get")
                               EXCEPT !.force = force,
                                      !.afterModify = store.libsModified]]
    /\ CacheUnchanged

GetLibraryDocumentsCall ==
    /\ OpFree
    /\ \E force \in BOOLEAN, id \in LibraryIds :
         store' = [store EXCEPT
                     !.op = [NewOp("getLibraryDocuments", IF force THEN "api" ELSE "get")
                               EXCEPT !.force = force, !.id = id,
                                      !.afterModify = store.docsModified]]
    /\ CacheUnchanged

\* const cached = await Storage.getCached...(); if (cached) return it
CachedOrFetch(s, cached) ==
    IF IsSet(cached) THEN Returned(s, cached, TRUE) ELSE [s EXCEPT !.op.pc = "api"]

GetLibrariesCached ==
    /\ store.op.name = "getLibraries" /\ store.op.pc = "get"
    /\ store' = CachedOrFetch(store, getCachedLibraries(store.data, store.now))
    /\ CacheUnchanged

GetLibraryDocumentsCached ==
    /\ store.op.name = "getLibraryDocuments" /\ store.op.pc = "get"
    /\ store' = CachedOrFetch(store, getCachedLibraryDocs(store.data, store.now, store.op.id))
    /\ CacheUnchanged

\* The API answers and the handler stores the answer in the cache.
GetLibrariesFetched ==
    /\ store.op.name = "getLibraries" /\ store.op.pc = "api"
    /\ store' = [store EXCEPT
                   !.op.pc = "set", !.op.arg = Listing(store.libs),
                   !.data = setCachedLibraries(store.data, store.now, Listing(store.libs)),
                   !.stored = Some([list |-> Listing(store.libs), at |-> store.now]),
                   !.libsModified = FALSE]
    /\ CacheUnchanged

GetLibraryDocumentsFetched ==
    /\ store.op.name = "getLibraryDocuments" /\ store.op.pc = "api"
    /\ store' = [store EXCEPT
                   !.op.pc = "set", !.op.arg = Listing(store.docs),
                   !.data = setCachedLibraryDocs(store.data, store.now, store.op.id,
                                                 Listing(store.docs)),
                   !.docsModified = FALSE]
    /\ CacheUnchanged

GetStored ==
    /\ store.op.name \in {"getLibraries", "getLibraryDocuments"} /\ store.op.pc = "set"
    /\ store' = Returned(store, Some(store.op.arg), FALSE)
    /\ CacheUnchanged

\* addToLibrary(libraryId, bibcodes) and createLibrary(name, options)
AddToLibraryCall ==
    /\ OpFree
    /\ store.docs < MaxLibs
    /\ \E id \in LibraryIds :
         store' = [store EXCEPT !.op = [NewOp("addToLibrary", "api") EXCEPT !.id = id]]
    /\ CacheUnchanged

CreateLibraryCall ==
    /\ OpFree
    /\ store.libs < MaxLibs
    /\ store' = [store EXCEPT !.op = NewOp("createLibrary", "api")]
    /\ CacheUnchanged

AddToLibraryDone ==
    /\ store.op.name = "addToLibrary" /\ store.op.pc = "api"
    /\ store' = [store EXCEPT
                   !.op.pc = "remove",
                   !.docs = @ + 1,
                   !.data = StorageRemove(store.data, AddToLibraryRemoves(store.op.id)),
                   !.docsModified = TRUE]
    /\ CacheUnchanged

CreateLibraryDone ==
    /\ store.op.name = "createLibrary" /\ store.op.pc = "api"
    /\ store' = [store EXCEPT
                   !.op.pc = "remove",
                   !.libs = @ + 1,
                   !.data = StorageRemove(store.data, CreateLibraryRemoves),
                   !.libsModified = TRUE]
    /\ CacheUnchanged

Removed ==
    /\ store.op.name \in {"addToLibrary", "createLibrary"} /\ store.op.pc = "remove"
    /\ store' = Returned(store, Undefined, FALSE)
    /\ CacheUnchanged

\* The API call of a handler fails: the handler throws and changes nothing.
ApiFails ==
    /\ store.op.pc = "api"
    /\ store' = [store EXCEPT !.op.pc = "rejected"]
    /\ CacheUnchanged

ClockTick ==
    /\ store.now < StartTime + MaxClock
    /\ store' = [store EXCEPT !.now = @ + 1]
    /\ CacheUnchanged

CacheNext ==
    \/ GetCachedLibrariesCall
    \/ GetCachedLibrariesReturn
    \/ SetCachedLibrariesCall
    \/ SetCachedLibrariesReturn
    \/ GetLibrariesCall
    \/ GetLibraryDocumentsCall
    \/ GetLibrariesCached
    \/ GetLibraryDocumentsCached
    \/ GetLibrariesFetched
    \/ GetLibraryDocumentsFetched
    \/ GetStored
    \/ AddToLibraryCall
    \/ CreateLibraryCall
    \/ AddToLibraryDone
    \/ CreateLibraryDone
    \/ Removed
    \/ ApiFails
    \/ ClockTick

SpecCache == CacheInit /\ [][CacheNext]_vars

(***************************************************************************)
(* Preferences (Storage.getPreferences and setPreferences, in the ADS       *)
(* extension's unnamed/part_007 and in lib/storage.js).  A preferences      *)
(* object is a function from its keys to their values.  Calls run one at a  *)
(* time.                                                                    *)
(***************************************************************************)
DefaultPreferences(p) ==
    IF p = "ads"
    THEN [k \in {"defaultLibrary", "bibtexKeyFormat", "citeCommand", "maxAuthors",
                 "journalFormat"} |->
            CASE k = "defaultLibrary" -> Null
              [] k = "bibtexKeyFormat" -> Null
              [] k = "citeCommand" -> "\\cite"
              [] k = "maxAuthors" -> 10
              [] k = "journalFormat" -> 1]
    ELSE [k \in {"citeCommand", "maxAuthors"} |->
            IF k = "citeCommand" THEN "\\cite" ELSE 10]

\* The keys the callers supply and the values they give them.
SuppliedKeys == {"citeCommand", "maxAuthors", "defaultLibrary"}
SuppliedValues(k) ==
    CASE k = "citeCommand" -> {"\\cite", "\\citep"}
      [] k = "maxAuthors" -> {5, 10}
      [] k = "defaultLibrary" -> {"lib1", "lib2"}
PrefsArgs ==
    {[k \in K |-> f[k]] :
        f \in [citeCommand : SuppliedValues("citeCommand"),
               maxAuthors : SuppliedValues("maxAuthors"),
               defaultLibrary : SuppliedValues("defaultLibrary")],
        K \in SUBSET SuppliedKeys}

\* Variant that stores the new keys only.
Spread_NewOnly(current, prefs) == prefs
\* { ...current, ...prefs }
Spread(current, prefs) ==
    [k \in DOMAIN current \cup DOMAIN prefs |->
        IF k \in DOMAIN prefs THEN prefs[k] ELSE current[k]]

\* result.preferences || { defaults }
getPreferences(stored) ==
    IF stored # Undefined THEN stored[1] ELSE DefaultPreferences(provider)

NoPrefs == [k \in {} |-> Null]
PrefsOp(name, pc, arg) == [name |-> name, pc |-> pc, arg |-> arg, result |-> NoPrefs]

\* store.supplied gives each key the value of the last setPreferences call
\* that had the key, if any.
PrefsInit ==
    /\ provider \in {"ads", "inspire"}
    /\ ResolverOff
    /\ match = MatchOff
    /\ cat = CatOff
    /\ fn = FnOff
    /\ net = NetOff
    /\ store = [preferences |-> Undefined,
                op |-> PrefsOp("none", "idle", NoPrefs),
                supplied |-> [k \in SuppliedKeys |-> Undefined]]

SetPreferencesCall ==
    /\ store.op.pc \in {"idle", "returned"}
    /\ \E prefs \in PrefsArgs :
         store' = [store EXCEPT !.op = PrefsOp("setPreferences", "get", prefs)]
    /\ CacheUnchanged

\* const current = await this.getPreferences(); then this.set(...)
SetPreferencesStore ==
    /\ store.op.name = "setPreferences" /\ store.op.pc = "get"
    /\ store' = [store EXCEPT
                   !.op.pc = "set",
                   !.preferences = Some(Spread(getPreferences(store.preferences),
                                               store.op.arg)),
                   !.supplied = [k \in SuppliedKeys |->
                                    IF k \in DOMAIN store.op.arg
                                    THEN Some(store.op.arg[k])
                                    ELSE store.supplied[k]]]
    /\ CacheUnchanged

SetPreferencesReturn ==
    /\ store.op.name = "setPreferences" /\ store.op.pc = "set"
    /\ store' = [store EXCEPT !.op.pc = "returned"]
    /\ CacheUnchanged

GetPreferencesCall ==
    /\ store.op.pc \in {"idle", "returned"}
    /\ store' = [store EXCEPT !.op = PrefsOp("getPreferences", "get", NoPrefs)]
    /\ CacheUnchanged

GetPreferencesReturn ==
    /\ store.op.name = "getPreferences" /\ store.op.pc = "get"
    /\ store' = [store EXCEPT !.op.pc = "returned",
                              !.op.result = getPreferences(store.preferences)]
    /\ CacheUnchanged

PrefsNext ==
    \/ SetPreferencesCall
    \/ SetPreferencesStore
    \/ SetPreferencesReturn
    \/ GetPreferencesCall
    \/ GetPreferencesReturn

SpecPrefs == PrefsInit /\ [][PrefsNext]_vars

(***************************************************************************)
(* setPreferences messages handled by the service worker (onMessage and     *)
(* handleMessage, listed in RELEASE_NOTES.md).  Every message starts its    *)
(* own activation of handleMessage, and an activation is suspended at each  *)
(* await: while chrome.storage reads and while it writes (specification     *)
(* SpecHandlers).                                                           *)
(***************************************************************************)
Handlers == {1, 2}

\* an activation of handleMessage for { action: 'setPreferences', payload }:
\* where it is, its payload, and what getPreferences returned to it
NewHandler == [pc |-> "idle", payload |-> NoPrefs, current |-> NoPrefs]

HandlersInit ==
    /\ provider \in {"ads", "inspire"}
    /\ ResolverOff
    /\ match = MatchOff
    /\ cat = CatOff
    /\ fn = FnOff
    /\ net = NetOff
    /\ store = [preferences |-> Undefined, handlers |-> [h \in Handlers |-> NewHandler]]

\* a setPreferences message arrives: handleMessage calls
\* Storage.setPreferences(payload), which calls getPreferences, which awaits
\* chrome.storage.local.get; the payloads of the two messages share no key
MessageArrives(h) ==
    /\ store.handlers[h].pc = "idle"
    /\ \E prefs \in PrefsArgs :
         /\ DOMAIN prefs # {}
         /\ \A g \in Handlers \ {h} : DOMAIN prefs \cap DOMAIN store.handlers[g].payload = {}
         /\ store' = [store EXCEPT !.handlers[h].pc = "get", !.handlers[h].payload = prefs]
    /\ CacheUnchanged

\* the read is answered with what is stored now: const current = await
\* this.getPreferences(); the activation goes on to this.set(...) and awaits it
HandlerReads(h) ==
    /\ store.handlers[h].pc = "get"
    /\ store' = [store EXCEPT !.handlers[h].pc = "set",
                              !.handlers[h].current = getPreferences(store.preferences)]
    /\ CacheUnchanged

\* the write is done: preferences is { ...current, ...prefs }; handleMessage
\* returns { success: true }
HandlerWrites(h) ==
    /\ store.handlers[h].pc = "set"
    /\ store' = [store EXCEPT !.handlers[h].pc = "done",
                              !.preferences = Some(Spread(store.handlers[h].current,
                                                          store.handlers[h].payload))]
    /\ CacheUnchanged

\* the next pair of messages
HandlersReset ==
    /\ \A h \in Handlers : store.handlers[h].pc = "done"
    /\ store' = [store EXCEPT !.handlers = [h \in Handlers |-> NewHandler]]
    /\ CacheUnchanged

HandlersNext ==
    \/ \E h \in Handlers : MessageArrives(h)
    \/ \E h \in Handlers : HandlerReads(h)
    \/ \E h \in Handlers : HandlerWrites(h)
    \/ HandlersReset

SpecHandlers == HandlersInit /\ [][HandlersNext]_vars

(***************************************************************************)
(* BibtexUtils.parseBibtex and mergeBibtex (unnamed/part_008), on strings   *)
(* of characters.                                                           *)
(***************************************************************************)
\* \w
WordChars == Letters \cup Digits \cup {"_"}

\* First index >= i whose character is c (Len(s)+1 if none).
IndexOfChar(s, i, c) == SkipWhile(s, i, Range(s) \ {c})

\* /@(\w+)\{([^,]+),([^@]*)/ tried at index i: "@", one or more word
\* characters, "{", one or more characters other than ",", then ",", then
\* everything up to the next "@".  Every quantifier is greedy and is followed
\* by a character outside its class, so no shorter repetition can match.
MatchesAt(s, i) ==
    /\ i <= Len(s) /\ s[i] = "@"
    /\ SkipWhile(s, i + 1, WordChars) > i + 1
    /\ SkipWhile(s, i + 1, WordChars) <= Len(s)
    /\ s[SkipWhile(s, i + 1, WordChars)] = "{"
    /\ IndexOfChar(s, SkipWhile(s, i + 1, WordChars) + 1, ",") <= Len(s)
    /\ IndexOfChar(s, SkipWhile(s, i + 1, WordChars) + 1, ",")
         > SkipWhile(s, i + 1, WordChars) + 1

\* The entry parseBibtex pushes for the match at i whose groups end before
\* brace, comma and stop.
Entry(s, i, brace, comma, stop) ==
    [type |-> SubSeq(s, i + 1, brace - 1),
     key |-> Trim(SubSeq(s, brace + 1, comma - 1)),
     raw |-> <<"@">> \o SubSeq(s, i + 1, brace - 1) \o <<"{">>
               \o Trim(SubSeq(s, brace + 1, comma - 1)) \o <<",">>
               \o SubSeq(s, comma + 1, stop - 1) \o <<"}">>,
     stop |-> stop]

EntryAt(s, i, brace) ==
    Entry(s, i, brace, IndexOfChar(s, brace + 1, ","),
          IndexOfChar(s, IndexOfChar(s, brace + 1, ",") + 1, "@"))

\* while ((match = entryRegex.exec(bibtexString)) !== null): the matches from
\* left to right, each search starting where the match before it ended.
parseBibtex(bibtexString) ==
    LET RECURSIVE F(_)
        F(i) ==
            IF i > Len(bibtexString) THEN <<>>
            ELSE IF MatchesAt(bibtexString, i)
                 THEN <<EntryAt(bibtexString, i, SkipWhile(bibtexString, i + 1, WordChars))>>
                        \o F(EntryAt(bibtexString, i,
                                     SkipWhile(bibtexString, i + 1, WordChars)).stop)
                 ELSE F(i + 1)
    IN  F(1)

\* toAdd.map(e => e.raw).join('\n\n')
JoinRaw(toAdd) ==
    LET RECURSIVE J(_)
        J(k) == IF k = 0 THEN <<>>
                ELSE IF k = 1 THEN toAdd[1].raw
                ELSE J(k - 1) \o <<"\n", "\n">> \o toAdd[k].raw
    IN  J(Len(toAdd))

ExistingKeys(existingEntries) == {existingEntries[k].key : k \in 1..Len(existingEntries)}

\* Variant that filters nothing out.
ToAdd_All(newParsed, existingKeys) == newParsed
\* newParsed.filter(e => !existingKeys.has(e.key))
ToAdd(newParsed, existingKeys) == SelectSeq(newParsed, LAMBDA e : e.key \notin existingKeys)

Appended(existing, toAdd) ==
    IF Len(toAdd) = 0 THEN existing
    ELSE Trim(existing) \o <<"\n", "\n">> \o JoinRaw(toAdd)

mergeBibtex(existing, newEntries) ==
    IF existing = <<>> \/ Trim(existing) = <<>> THEN newEntries
    ELSE Appended(existing, ToAdd(parseBibtex(newEntries),
                                  ExistingKeys(parseBibtex(existing))))

\* The texts merged: entries with the keys a and b, a second entry with key
\* a, a @string-like entry, which has no comma, and blanks.
MaxExisting == 2      \* pieces of the existing text
MaxNew == 1           \* pieces of the new text
EntryA == <<"@", "a", "{", "a", ",", "}">>
EntryA1 == <<"@", "a", "{", "a", ",", "1", "}">>
EntryB == <<"@", "a", "{", "b", ",", "}">>
StringEntry == <<"@", "b", "{", "2", "}">>
Blank == <<" ">>
BibPieces == {EntryA, EntryA1, EntryB, StringEntry, Blank}

Concat(pieces) ==
    LET RECURSIVE C(_)
        C(k) == IF k = 0 THEN <<>> ELSE C(k - 1) \o pieces[k]
    IN  C(Len(pieces))

MergeInit ==
    /\ provider \in {"ads"}
    /\ ResolverOff
    /\ match = MatchOff
    /\ cat = CatOff
    /\ fn \in [pc : {"ready"},
               existing : SeqUpTo(BibPieces, MaxExisting),
               newEntries : SeqUpTo(BibPieces, MaxNew),
               out : {<<>>}, again : {<<>>}]
    /\ net = NetOff
    /\ store = StoreOff

MergeRun ==
    /\ fn.pc = "ready"
    /\ fn' = [fn EXCEPT
                !.pc = "done",
                !.out = mergeBibtex(Concat(fn.existing), Concat(fn.newEntries)),
                !.again = mergeBibtex(mergeBibtex(Concat(fn.existing), Concat(fn.newEntries)),
                                      Concat(fn.newEntries))]
    /\ UNCHANGED <<provider, resolverVars, match, cat, net, store>>

SpecMerge == MergeInit /\ [][MergeRun]_vars

(***************************************************************************)
(* Claims about resolveEntry (specification Spec).                          *)
(***************************************************************************)
Live == {i \in 1..N : res[i].pc \in {"await", "returned", "rejected"}}
KindsCalled(i) == {calls[i][k].kind : k \in 1..Len(calls[i])}
AnsweredBy(i, kind, class) == res[i].lastStep.kind = kind /\ res[i].last = class
One == Frac(1, 1)

\* C1: for an entry that carries both a DOI and an arXiv id, once the DOI
\* lookup has returned a hit resolveEntry has returned with method 'doi', and
\* no arXiv lookup or query was issued for the entry.
C1_DoiOutranksArxiv ==
    \A i \in Live :
        (res[i].ids.doi /\ res[i].ids.arxiv /\ AnsweredBy(i, "doi", "hit")) =>
            /\ res[i].pc = "returned"
            /\ res[i].result.method = "doi"
            /\ res[i].result.id # Null
            /\ "arxiv" \notin KindsCalled(i)

C1_Witness ==
    \E i \in Live :
        /\ res[i].ids.doi /\ res[i].ids.arxiv
        /\ AnsweredBy(i, "doi", "hit")
        /\ res[i].lastStep.q = 2
        /\ res[i].pc = "returned" /\ res[i].result.method = "doi"

\* C2 as stated: for an entry with a native identifier and a DOI and/or an
\* arXiv id the native-id lookup is the first capability call, and a single
\* hit on it returns the native-id method with confidence 1.0 without any
\* DOI, arXiv or title query.
C2_NativeFirst ==
    \A i \in Live :
        (res[i].ids.native /\ (res[i].ids.doi \/ res[i].ids.arxiv)) =>
            /\ calls[i] # <<>> /\ calls[i][1].kind = "native"
            /\ AnsweredBy(i, "native", "hit") =>
                 /\ res[i].pc = "returned"
                 /\ res[i].result.method \in {"bibcode", "recid"}
                 /\ Eq(res[i].result.confidence, One)
                 /\ KindsCalled(i) = {"native"}

\* The kinds of the calls issued before the first native-id call of entry i.
BeforeNative(i) ==
    {calls[i][k].kind : k \in {k \in 1..Len(calls[i]) :
                                  \A j \in 1..k : calls[i][j].kind # "native"}}

\* C2 as amended: the ADS resolver tries the bibcode first; the INSPIRE
\* resolver tries the recid third, after DOI and arXiv have both been tried
\* where present; in both, a hit on the native-id lookup returns the native-id
\* method with confidence 1.0 and no later strategy is queried.
C2_NativeOrderPerProvider ==
    \A i \in Live :
        res[i].ids.native =>
            /\ provider = "ads" =>
                 /\ calls[i] # <<>> /\ calls[i][1].kind = "native"
                 /\ AnsweredBy(i, "native", "hit") =>
                      /\ res[i].pc = "returned"
                      /\ res[i].result.method = "bibcode"
                      /\ Eq(res[i].result.confidence, One)
                      /\ KindsCalled(i) = {"native"}
            /\ provider = "inspire" =>
                 /\ "native" \in KindsCalled(i) =>
                      BeforeNative(i) = {k \in {"doi", "arxiv"} : res[i].ids[k]}
                 /\ AnsweredBy(i, "native", "hit") =>
                      /\ res[i].pc = "returned"
                      /\ res[i].result.method = "recid"
                      /\ Eq(res[i].result.confidence, One)
                      /\ "title" \notin KindsCalled(i)

C2_Witness ==
    \E i \in Live :
        /\ provider = "inspire"
        /\ res[i].ids.native /\ res[i].ids.doi /\ res[i].ids.arxiv
        /\ AnsweredBy(i, "native", "hit")
        /\ res[i].pc = "returned" /\ res[i].result.method = "recid"

\* C3: whatever the capability does (hit, miss, ill-formed value, exception)
\* resolveEntry never rejects: an activation is waiting for a response or has
\* returned its result, it issues no more calls than the resolver has call
\* sites, and resolveEntries never fails.
C3_NeverRejects ==
    /\ loop.pc # "failed"
    /\ \A i \in 1..N :
         /\ res[i].pc # "rejected"
         /\ Len(calls[i]) <= Len(Order(provider))
         /\ res[i].pc = "await" => calls[i] # <<>> /\ calls[i][Len(calls[i])] = CurStep(i)

C3_Witness ==
    \E i \in Live :
        /\ capability = "arbitrary"
        /\ AnsweredBy(i, "title", "throw")
        /\ res[i].pc = "returned"
        /\ res[i].result.error # Null

DropsExceptions(p, kind) ==
    \/ p = "ads" /\ kind = "arxiv"
    \/ p = "inspire" /\ kind = "native"

WellFormed(r) ==
    /\ r.id # Null => r.method # "not_found" /\ Gt(r.confidence, Zero)
    /\ r.error # Null => r.id = Null /\ r.method = "not_found" /\ Eq(r.confidence, Zero)

C5_ResultWellFormed ==
    /\ \A i \in 1..N : res[i].pc = "returned" => WellFormed(res[i].result)
    /\ \A k \in 1..Len(results) : WellFormed(results[k])

C5_Witness ==
    \E i \in Live :
        /\ AnsweredBy(i, "doi", "malformed")
        /\ res[i].pc = "returned"
        /\ res[i].result.error # Null

(***************************************************************************)
(* Claims about resolveEntries (specification Spec).                        *)
(***************************************************************************)
\* C6: resolveEntries returns one result per entry, in input order: result k
\* carries the cite key of entry k, the result of a returning activation
\* lands at its entry's position, a failed entry does not stop the loop, and
\* when the loop is done there are as many results as entries.
C6_OneResultPerEntryInOrder ==
    /\ Len(results) <= N
    /\ \A k \in 1..Len(results) : results[k].citeKey = entries[k].citeKey
    /\ \A i \in 1..N : res[i].pc = "returned" =>
         /\ Len(results) = i - 1
         /\ res[i].result.citeKey = entries[i].citeKey
    /\ loop.pc = "done" => Len(results) = N
    /\ loop.pc # "failed"

C6_Witness ==
    /\ loop.pc = "done"
    /\ N >= 2
    /\ results[1].error # Null
    /\ results[2].id # Null

\* C7: at most one entry is being resolved at any time: an activation that
\* has started finds the results of all earlier entries produced and taken,
\* and no later entry started.
C7_OneEntryAtATime ==
    /\ Cardinality(Live) <= 1
    /\ \A i \in Live :
         /\ Len(results) = i - 1
         /\ \A j \in 1..(i-1) : res[j].pc = "done"
         /\ \A j \in (i+1)..N : res[j].pc = "idle" /\ calls[j] = <<>>

C7_Witness ==
    /\ N >= 2
    /\ res[2].pc = "await"
    /\ Len(calls[2]) >= 2
    /\ Len(results) = 1

\* C11: with a progress callback, resolveEntries invokes it once per entry,
\* after the entry's result is pushed and before the next entry starts, with
\* (i, N, result_i) for i = 1..N in increasing order; never for an empty
\* list, never more than N times, and not at all without a callback.
C11_ProgressOncePerEntry ==
    /\ ~onProgress => progress = <<>>
    /\ onProgress =>
         /\ Len(progress) = Len(results)
         /\ \A k \in 1..Len(progress) : progress[k] = <<k, N, results[k]>>
         /\ \A i \in Live : Len(progress) = i - 1
         /\ loop.pc = "done" => Len(progress) = N

C11_Witness ==
    /\ onProgress
    /\ N >= 2
    /\ loop.pc = "call" /\ loop.i = 2
    /\ Len(progress) = 1
    /\ progress[1][3].error # Null

\* C12: with delayMs > 0 a delay follows the result of every entry but the
\* last, and precedes the first call of the next entry: when resolveEntries
\* returns N >= 1 results exactly N-1 delays have occurred, delay k following
\* entry k; with delayMs = 0 there is none.
C12_DelayBetweenEntries ==
    /\ delayMs = 0 => delays = <<>> /\ loop.pc # "awaitDelay"
    /\ delayMs > 0 =>
         /\ \A k \in 1..Len(delays) : delays[k] = k
         /\ \A i \in Live : Len(delays) = i - 1
         /\ loop.pc = "awaitDelay" =>
              /\ loop.i < N
              /\ Len(results) = loop.i /\ Len(delays) = loop.i - 1
              /\ res[loop.i + 1].pc = "idle" /\ calls[loop.i + 1] = <<>>
         /\ (loop.pc = "done" /\ N >= 1) => Len(delays) = N - 1
         /\ (loop.pc = "done" /\ N = 0) => delays = <<>>

C12_Witness ==
    /\ delayMs > 0
    /\ N >= 2
    /\ loop.pc = "done"
    /\ Len(delays) = N - 1

(***************************************************************************)
(* Claims about categorizeResults (specification SpecCat).                  *)
(***************************************************************************)
NullId(r) == r.id = Null
NullIdNoError(r) == r.id = Null /\ r.error = Null
NullIdWithError(r) == r.id = Null /\ r.error # Null
AllOf(list, P(_)) == \A k \in 1..Len(list) : P(list[k])

Candidates == 1..Len(match.documents)

\* Jaccard similarity of every candidate to the entry title
Sims ==
    LET entryTitle == normalizeTitle(OrEmpty(match.fields.title))
    IN  [k \in Candidates |->
            calculateTitleSimilarity(entryTitle,
                                     normalizeTitle(DocTitleText(match.documents[k])))]

SameYear(k) ==
    /\ IsSet(match.fields.year)
    /\ ParseInt(match.fields.year.text) = match.documents[k].year

ScoreOf(sim, k) == IF SameYear(k) THEN Plus(sim[k], Frac(1, 10)) ELSE sim[k]

Half == Frac(1, 2)
AboveHalf(sim) == {k \in Candidates : Gt(sim[k], Half)}

\* C9: a candidate is eligible only if its similarity is strictly greater
\* than 0.5: when every candidate has similarity <= 0.5, with or without a
\* matching year, none is selected; when some candidate lies above 0.5 one is
\* selected; and the selected candidate always lies above 0.5.
C9_StrictThreshold ==
    match.pc = "done" =>
        LET above == AboveHalf(Sims)
        IN  /\ above = {} => match.out.kind = "null"
            /\ above # {} => match.out.kind = "match"
            /\ match.out.kind = "match" => match.out.idx \in above

C9_Witness ==
    /\ match.pc = "done"
    /\ match.out.kind = "null"
    /\ LET sim == Sims
       IN  /\ \E k \in Candidates : Eq(sim[k], Half) /\ SameYear(k)
           /\ \E k \in Candidates : Eq(sim[k], Half) /\ ~SameYear(k)

\* the first candidate, in result order, with the largest score among those
\* above 0.5
FirstBest(sim, above) ==
    CHOOSE k \in above :
        /\ \A j \in above : ~Gt(ScoreOf(sim, j), ScoreOf(sim, k))
        /\ \A j \in above : j < k => Gt(ScoreOf(sim, k), ScoreOf(sim, j))

\* C10: the selected candidate is the first one, in result order, with the
\* largest score (similarity plus 0.1 on equal years) among the candidates
\* with similarity > 0.5; its confidence is min(similarity, 0.9) of that
\* candidate, without the year bonus, and so lies in (0.5, 0.9].
C10_FirstMaxScoreCappedConfidence ==
    match.pc = "done" =>
        LET sim == Sims
            above == AboveHalf(sim)
        IN  above # {} =>
                /\ match.out.kind = "match"
                /\ match.out.idx = FirstBest(sim, above)
                /\ Eq(match.out.confidence, FMin(sim[match.out.idx], Frac(9, 10)))
                /\ Gt(match.out.confidence, Half)
                /\ ~Gt(match.out.confidence, Frac(9, 10))

C10_Witness ==
    /\ match.pc = "done"
    /\ match.out.kind = "match"
    /\ SameYear(match.out.idx)
    /\ LET sim == Sims
       IN  /\ \E j \in AboveHalf(sim) : Gt(sim[j], sim[match.out.idx])
           /\ Eq(match.out.confidence, sim[match.out.idx])

(***************************************************************************)
(* Claims about calculateTitleSimilarity (specification SpecSim).           *)
(***************************************************************************)
\* the title has a space-separated piece of more than two characters
HasWord(t) == \E k \in 1..Len(SplitSpace(t)) : Len(SplitSpace(t)[k]) > 2

\* C13: the title similarity is symmetric, lies between 0 and 1, and is 0
\* whenever one of the two titles has no word of more than two characters
\* (the empty title among them).
C13_SimilaritySymmetricBounded ==
    fn.pc = "done" =>
        /\ fn.out = fn.rev
        /\ ~Gt(Zero, fn.out) /\ ~Gt(fn.out, One)
        /\ (~HasWord(fn.a) \/ ~HasWord(fn.b)) => fn.out = Zero

C13_Witness ==
    /\ fn.pc = "done"
    /\ Gt(fn.out, Zero) /\ Gt(One, fn.out)
    /\ Len(fn.a) # Len(fn.b)
    /\ fn.out = fn.rev


(***************************************************************************)
(* Claims about normalizeTitle (specification SpecNorm).                    *)
(***************************************************************************)
\* C14: normalizeTitle is idempotent: normalizing a normalized title, with
\* or without inline math, commands, an unbalanced "$", braces and
\* punctuation in the original, changes nothing.
C14_NormalizeIdempotent ==
    fn.pc = "done" => fn.again = fn.out

C14_Witness ==
    /\ fn.pc = "done"
    /\ fn.s = <<"$", "\\", "A", "1">>
    /\ fn.out = <<"1">>
    /\ fn.again = fn.out


(***************************************************************************)
(* Claims about the rate limiter and request() (SpecNet, SpecRetry).        *)
(***************************************************************************)
\* the admissions in the window of windowMs that starts at time t
AdmittedFrom(t) ==
    {j \in 1..Len(net.admitted) :
        t <= net.admitted[j].at /\ net.admitted[j].at < t + WindowMs(provider)}

C16_BackoffGrows ==
    \A c \in Callers :
        \A k \in 2..Len(net.callers[c].waits) :
            net.callers[c].waits[k] > net.callers[c].waits[k - 1]

(***************************************************************************)
(* Claims about the library cache (specification SpecCache).                *)
(***************************************************************************)
\* What getCachedLibraries owes at time t: the list stored last when it was
\* stored less than libraryTTL ago, null otherwise.
Owed(t) ==
    IF store.stored # Undefined /\ t - store.stored[1].at < LibraryTTL
    THEN Some(store.stored[1].list)
    ELSE Undefined

\* C17: whatever calls and clock advances came before, getCachedLibraries
\* returns the list stored last if less than libraryTTL has passed since it
\* was stored, and null if nothing was stored or the TTL has passed.
C17_CachedUntilTTL ==
    store.op.name = "getCachedLibraries" /\ store.op.pc = "returned" =>
        store.op.result = Owed(store.op.at)

C17_Witness ==
    /\ store.op.name = "getCachedLibraries" /\ store.op.pc = "returned"
    /\ store.stored # Undefined
    /\ store.op.at - store.stored[1].at = LibraryTTL
    /\ store.op.result = Undefined

\* A non-forced handler that began after a modification nothing has fetched
\* since did not answer from the cache.
Invalidated(name) ==
    /\ store.op.name = name
    /\ store.op.pc = "returned"
    /\ ~store.op.force
    /\ store.op.afterModify
    => ~store.op.fromCache

\* C18: after addToLibrary(L) succeeds the next non-forced
\* getLibraryDocuments(L), and after createLibrary succeeds the next
\* non-forced getLibraries, fetches from the API and does not return the
\* value cached before the modification.
C18_ModificationInvalidates ==
    Invalidated("getLibraryDocuments") /\ Invalidated("getLibraries")

\* The half of C18 about addToLibrary, and a state in which it applies.
C18_AddToLibraryInvalidates == Invalidated("getLibraryDocuments")

C18_AddToLibraryWitness ==
    /\ store.op.name = "getLibraryDocuments" /\ store.op.pc = "returned"
    /\ ~store.op.force /\ store.op.afterModify
    /\ store.op.result = Some(Listing(1))
    /\ store.op.at < StartTime + DocumentsTTL

(***************************************************************************)
(* Claims about preferences (specification SpecPrefs).                      *)
(***************************************************************************)
\* Each key with the value supplied last, or else with its default.
LastSuppliedOrDefault ==
    [k \in {s \in SuppliedKeys : store.supplied[s] # Undefined}
            \cup DOMAIN DefaultPreferences(provider) |->
        IF k \in SuppliedKeys /\ store.supplied[k] # Undefined
        THEN store.supplied[k][1]
        ELSE DefaultPreferences(provider)[k]]

\* C19: after setPreferences calls run one after the other, getPreferences
\* returns for each key the value of the last call that supplied the key,
\* and the key's default when no call supplied it.
C19_PreferencesMerge ==
    store.op.name = "getPreferences" /\ store.op.pc = "returned" =>
        store.op.result = LastSuppliedOrDefault

C19_Witness ==
    /\ store.op.name = "getPreferences" /\ store.op.pc = "returned"
    /\ provider = "ads"
    /\ store.supplied["citeCommand"] = Some("\\citep")
    /\ store.supplied["maxAuthors"] = Some(5)
    /\ store.supplied["defaultLibrary"] = Undefined
    /\ store.op.result["journalFormat"] = 1

(***************************************************************************)
(* Claims about mergeBibtex (specification SpecMerge).                      *)
(***************************************************************************)
\* The cite key of a piece that is an entry with a cite key.
KeyOf(piece) ==
    CASE piece = EntryA -> <<"a">>
      [] piece = EntryA1 -> <<"a">>
      [] piece = EntryB -> <<"b">>
CitedPieces == {EntryA, EntryA1, EntryB}
KeysIn(pieces) == {KeyOf(pieces[k]) : k \in {j \in 1..Len(pieces) : pieces[j] \in CitedPieces}}

\* The number of entries of text s that begin "@a{key,".
Occurrences(s, key) ==
    Cardinality({i \in 1..Len(s) :
                    /\ i + 3 + Len(key) <= Len(s)
                    /\ SubSeq(s, i, i + 3 + Len(key)) = <<"@", "a", "{">> \o key \o <<",">>})

IsPrefixOf(p, s) == Len(p) <= Len(s) /\ SubSeq(s, 1, Len(p)) = p

\* C20: for a non-empty existing text, merging adds no entry whose key occurs
\* in it and adds the new entries whose keys do not; the result begins with
\* the existing text (but for blanks around it), is the existing text when
\* every new key occurs in it,
\* and merging the same new entries into the result changes nothing.
C20_MergeAddsOnlyNewKeys ==
    fn.pc = "done" /\ Trim(Concat(fn.existing)) # <<>> =>
        /\ IsPrefixOf(Trim(Concat(fn.existing)), Trim(fn.out))
        /\ \A key \in KeysIn(fn.existing) :
               Occurrences(fn.out, key) = Occurrences(Concat(fn.existing), key)
        /\ \A key \in KeysIn(fn.newEntries) \ KeysIn(fn.existing) :
               Occurrences(fn.out, key) = Occurrences(Concat(fn.newEntries), key)
        /\ KeysIn(fn.newEntries) \subseteq KeysIn(fn.existing) =>
               fn.out = Concat(fn.existing)
        /\ fn.again = fn.out

\* The same for texts without a @string-like entry, and a state in which an
\* entry with a new key was appended to an entry with another key.
C20_RegularEntries ==
    StringEntry \notin Range(fn.existing) \cup Range(fn.newEntries) =>
        C20_MergeAddsOnlyNewKeys

C20_RegularWitness ==
    /\ fn.pc = "done"
    /\ fn.existing = <<EntryA, Blank>>
    /\ fn.newEntries = <<EntryB>>
    /\ fn.out = EntryA \o <<"\n", "\n">> \o EntryB \o <<"}">>


(***************************************************************************)
(* Further claims about resolveEntry (specification Spec).                  *)
(***************************************************************************)
HasTitleAndAuthor(i) == Truthy(res[i].fields.title) /\ Truthy(res[i].fields.author)

\* C21: for an entry without a title or without an author the title search
\* is never issued, and the result returned is that of an identifier
\* strategy or else not_found with a null resolvedId.
C21_TitleSearchNeedsTitleAndAuthor ==
    \A i \in Live :
        ~HasTitleAndAuthor(i) =>
            /\ "title" \notin KindsCalled(i)
            /\ res[i].pc = "returned" =>
                 /\ res[i].result.method # "title"
                 /\ res[i].result.id = Null => res[i].result.method = "not_found"

C21_Witness ==
    \E i \in Live :
        /\ Truthy(res[i].fields.title) /\ ~Truthy(res[i].fields.author)
        /\ res[i].ids.doi
        /\ AnsweredBy(i, "doi", "miss")
        /\ res[i].pc = "returned"
        /\ res[i].result.method = "not_found" /\ res[i].result.error = Null

\* The calls of one strategy issued for entry i, in the order issued.
KindCalls(i, kind) == SelectSeq(calls[i], LAMBDA s : s.kind = kind)

\* Entry i has left the strategy `kind` without a result: it waits for a call
\* of another strategy or has returned not_found.
MovedOn(i, kind) ==
    \/ res[i].pc = "await" /\ CurStep(i).kind # kind
    \/ /\ res[i].pc = "returned"
       /\ res[i].result.method = "not_found" /\ res[i].result.error = Null

\* A result with method 'doi' comes from a DOI call that returned exactly one
\* result, and carries confidence 0.99.
DoiAcceptsUniqueHit(i) ==
    /\ AnsweredBy(i, "doi", "hit") =>
         /\ res[i].pc = "returned"
         /\ res[i].result.method = "doi"
         /\ res[i].result.id # Null
         /\ Eq(res[i].result.confidence, Frac(99, 100))
    /\ res[i].pc = "returned" /\ res[i].result.method = "doi" =>
         AnsweredBy(i, "doi", "hit")

\* The quoted query, then the unquoted one exactly when the quoted one found
\* none or several, and on to the next strategy when that does too.
DoiQuotedThenUnquoted(i) ==
    /\ KindCalls(i, "doi") \in {<<>>, <<Step("doi", 1)>>, <<Step("doi", 1), Step("doi", 2)>>}
    /\ Len(KindCalls(i, "doi")) = 2 =>
         res[i].lastStep # Step("doi", 1) \/ res[i].last \notin {"hit", "throw"}
    /\ res[i].lastStep = Step("doi", 1) /\ res[i].last \in {"miss", "many"} =>
         res[i].pc = "await" /\ CurStep(i) = Step("doi", 2)
    /\ res[i].lastStep = Step("doi", 2) /\ res[i].last \in {"miss", "many"} =>
         MovedOn(i, "doi")

\* The single lookup by DOI: a document is accepted, null moves on.
DoiSingleLookup(i) ==
    /\ KindCalls(i, "doi") \in {<<>>, <<Step("doi", 1)>>}
    /\ AnsweredBy(i, "doi", "miss") => MovedOn(i, "doi")

\* C22 as stated: the DOI strategy accepts only a unique hit, with confidence
\* 0.99 and method 'doi'; it issues the quoted query, retries once unquoted
\* exactly when the quoted query did not return one result, and moves on to
\* the next strategy when neither did.
C22_DoiRetriesUnquoted ==
    \A i \in Live : res[i].ids.doi => DoiAcceptsUniqueHit(i) /\ DoiQuotedThenUnquoted(i)

\* C22 as amended: that holds of the ADS resolver; the INSPIRE resolver makes
\* one lookup by DOI, accepts the document it returns with confidence 0.99 and
\* method 'doi', and moves on when it returns null, without a second query.
C22_DoiPerProvider ==
    \A i \in Live :
        res[i].ids.doi =>
            /\ DoiAcceptsUniqueHit(i)
            /\ provider = "ads" => DoiQuotedThenUnquoted(i)
            /\ provider = "inspire" => DoiSingleLookup(i)

C22_Witness ==
    \E i \in Live :
        /\ provider = "ads"
        /\ KindCalls(i, "doi") = <<Step("doi", 1), Step("doi", 2)>>
        /\ res[i].lastStep = Step("doi", 2) /\ res[i].last = "many"
        /\ res[i].pc = "await" /\ CurStep(i).kind = "arxiv"

\* The arXiv phrasings of a resolver, in the order of its code, and the
\* strategies that follow the arXiv strategy.
ArxivSteps(p) == SelectSeq(Order(p), LAMBDA s : s.kind = "arxiv")
AfterArxiv(p) == IF p = "ads" THEN {"title"} ELSE {"native", "title"}

\* C23: the arXiv phrasings are issued in their fixed order; the first one
\* that returns at least one hit ends the resolution with that phrasing's
\* first document, confidence 0.98 and method 'arxiv', and is the last call
\* made for the entry; and a later strategy is reached, or not_found
\* returned, only after every phrasing has been tried.
C23_ArxivPhrasingsInOrder ==
    \A i \in Live :
        res[i].ids.arxiv =>
            /\ KindCalls(i, "arxiv")
                 = SubSeq(ArxivSteps(provider), 1, Len(KindCalls(i, "arxiv")))
            /\ res[i].lastStep.kind = "arxiv" /\ res[i].last \in {"hit", "many"} =>
                 /\ res[i].pc = "returned"
                 /\ res[i].result.method = "arxiv"
                 /\ res[i].result.id # Null
                 /\ Eq(res[i].result.confidence, Frac(98, 100))
                 /\ calls[i][Len(calls[i])] = res[i].lastStep
            /\ res[i].pc = "returned" /\ res[i].result.method = "arxiv" =>
                 res[i].lastStep.kind = "arxiv" /\ res[i].last \in {"hit", "many"}
            /\ \/ KindsCalled(i) \cap AfterArxiv(provider) # {}
               \/ /\ res[i].pc = "returned"
                  /\ res[i].result.method = "not_found" /\ res[i].result.error = Null
               => KindCalls(i, "arxiv") = ArxivSteps(provider)

C23_Witness ==
    \E i \in Live :
        /\ provider = "ads"
        /\ res[i].ids.arxiv
        /\ HasTitleAndAuthor(i)
        /\ res[i].lastStep = Step("arxiv", 3) /\ res[i].last = "many"
        /\ KindCalls(i, "arxiv") = <<Step("arxiv", 1), Step("arxiv", 2), Step("arxiv", 3)>>
        /\ res[i].pc = "returned" /\ res[i].result.method = "arxiv"

\* C24: no query or lookup is issued twice for one entry, and an entry gets
\* at most 8 capability calls from the ADS resolver and at most 4 from the
\* INSPIRE resolver, whatever the capability returns or throws.
C24_NoRetries ==
    \A i \in Live :
        /\ \A j, k \in 1..Len(calls[i]) : calls[i][j] = calls[i][k] => j = k
        /\ Len(calls[i]) <= IF provider = "ads" THEN 8 ELSE 4

C24_Witness ==
    \E i \in Live :
        /\ provider = "ads"
        /\ Len(calls[i]) = 8
        /\ Len(KindCalls(i, "doi")) = 2 /\ Len(KindCalls(i, "arxiv")) = 4
        /\ AnsweredBy(i, "title", "throw")
        /\ res[i].pc = "returned"

\* The calls resolveEntry makes for entry i when no strategy accepts and
\* nothing is thrown: one per call site whose strategy applies to the entry.
AllApplicable(i) ==
    SelectSeq(Order(provider), LAMBDA s : StepGuard(s, res[i].ids, res[i].fields))

\* C25: a result without resolvedId and without error has method not_found
\* and confidence 0, and it is returned only after every call of every
\* strategy that applies to the entry has been made.
C25_NotFoundAfterAllStrategies ==
    \A i \in Live :
        res[i].pc = "returned" /\ res[i].result.error = Null =>
            /\ res[i].result.id = Null =>
                 /\ res[i].result.method = "not_found"
                 /\ Eq(res[i].result.confidence, Zero)
            /\ res[i].result.method = "not_found" =>
                 /\ res[i].result.id = Null
                 /\ calls[i] = AllApplicable(i)
                 /\ res[i].lastStep.kind \in {"native", "doi", "arxiv"} =>
                      res[i].last # "hit"

C25_Witness ==
    \E i \in Live :
        /\ provider = "inspire"
        /\ res[i].ids.doi /\ res[i].ids.arxiv /\ res[i].ids.native
        /\ HasTitleAndAuthor(i)
        /\ res[i].pc = "returned"
        /\ res[i].result.method = "not_found" /\ res[i].result.error = Null
        /\ Len(calls[i]) = 4
        /\ AnsweredBy(i, "title", "many")

\* An entry with no fields at all: nothing for an identifier or the title
\* search to be read from.
HasNoFields(i) == res[i].ids = NoIds /\ res[i].fields = NoFields

\* C26: resolveEntry called with an entry that has no fields at all fails
\* fast: the call ends by raising an error to its caller, and never by
\* returning a ResolutionResult.
C26_InvalidEntryFailsFast ==
    \A i \in Live : HasNoFields(i) /\ res[i].pc # "idle" => res[i].pc = "rejected"

(***************************************************************************)
(* Claims about buildTitleAuthorQuery (specification SpecQuery).            *)
(***************************************************************************)
\* The constraints of a well-formed query of provider p, joined the way the
\* provider joins them: by a space for ADS, by " and " for INSPIRE.
Conjoin(p, constraints) ==
    LET RECURSIVE J(_)
        J(k) == IF k = 0 THEN <<>>
                ELSE IF k = 1 THEN constraints[1]
                ELSE J(k - 1) \o (IF p = "ads" THEN <<" ">> ELSE <<" ","a","n","d"," ">>)
                              \o constraints[k]
    IN  J(Len(constraints))

\* The author constraint, if the author field gives a first author, and the
\* year constraint, if there is a year, each as the provider writes it.
AuthorYearConstraints(p, author, year) ==
    (IF FirstAuthor(author) # <<>>
     THEN <<IF p = "ads" THEN <<"a","u","t","h","o","r",":","\"">> \o FirstAuthor(author)
                                  \o <<"\"">>
            ELSE <<"a"," ">> \o FirstAuthor(author)>>
     ELSE <<>>)
    \o (IF Truthy(year)
        THEN <<IF p = "ads" THEN <<"y","e","a","r",":">> \o year.text
               ELSE <<"d","a","t","e"," ">> \o year.text>>
        ELSE <<>>)

\* C27: when the title yields no usable term, the query buildTitleAuthorQuery
\* returns is exactly the author constraint and/or the year constraint, in
\* the form they have in a well-formed query of the provider.
C27_AuthorYearOnlyQuery ==
    fn.pc = "done" /\ QueryWords(provider, fn.title) = <<>>
        => fn.out = Conjoin(provider, AuthorYearConstraints(provider, fn.author, fn.year))

(***************************************************************************)
(* Claims about one call of request() (specification SpecCall).             *)
(***************************************************************************)
\* fetches the one call has made, each logged by the rate limiter on admission
Attempts == Len(net.admitted)
\* 429 responses and network errors the call has met so far
FailuresMet == MaxRetries + 1 - net.failures

RequestBounded ==
    \A c \in Callers :
        LET r == net.callers[c]
        IN  /\ Attempts <= 1 + MaxRetries
            /\ r.retry <= MaxRetries
            \* every attempt, first or retry, was admitted by the rate limiter
            /\ r.pc \in {"fetching", "retrying", "done", "failed"} => Attempts = r.retry + 1
            /\ r.pc = "throttled" => Attempts = r.retry
            \* 429 responses and network errors count on the one retryCount
            /\ r.pc \in {"throttled", "fetching", "done"} => r.retry = FailuresMet
            /\ r.pc = "retrying" => r.retry + 1 = FailuresMet /\ r.outcome \in {"429", "network"}
            \* other HTTP errors and timeouts end the call at once
            /\ r.outcome \in {"http", "timeout"} => r.pc = "failed" /\ r.retry = FailuresMet
            \* a 429 response or a network error ends it when no retry is left
            /\ r.pc = "failed" /\ r.outcome \in {"429", "network"}
                   => r.retry = MaxRetries /\ FailuresMet = MaxRetries + 1
            /\ r.pc = "done" <=> r.outcome = "ok"

\* C28: a call of request() ends, returning the response or throwing, after
\* at most 1 + maxRetries fetches; 429 responses and network errors count on
\* the same retry counter, other HTTP errors and timeouts are not retried,
\* and every fetch is first admitted by the rate limiter.
C28_RequestTerminates ==
    /\ []RequestBounded
    /\ <>(\A c \in Callers : net.callers[c].pc \in {"done", "failed"})

C28_Witness ==
    \E c \in Callers :
        /\ net.callers[c].pc = "failed"
        /\ net.callers[c].outcome = "network"
        /\ Attempts = 1 + MaxRetries
        /\ Len(net.callers[c].waits) \in 1..(MaxRetries - 1)

(***************************************************************************)
(* Claims about concurrent setPreferences messages (specification           *)
(* SpecHandlers).                                                           *)
(***************************************************************************)
\* C29: when two setPreferences messages with disjoint keys have both been
\* handled, the stored preferences hold the values of both payloads,
\* however the two handlers interleaved.
C29_NoLostUpdate ==
    (\A h \in Handlers : store.handlers[h].pc = "done")
        => /\ store.preferences # Undefined
           /\ \A h \in Handlers : \A k \in DOMAIN store.handlers[h].payload :
                  /\ k \in DOMAIN store.preferences[1]
                  /\ store.preferences[1][k] = store.handlers[h].payload[k]

(***************************************************************************)
(* A further claim about resolveEntry (specification Spec).                 *)
(***************************************************************************)
\* The latest call of entry i threw, at a call site outside the catches
\* that drop exceptions.
ThrewUncaught(i) ==
    res[i].last = "throw" /\ ~DropsExceptions(provider, res[i].lastStep.kind)

\* C30: when a capability call outside the swallowing handlers throws, the
\* entry's resolution ends there: the result is returned with the error, and
\* the call that threw is the last one made for the entry, whatever
\* identifiers of lower priority the entry has.
C30_ThrowEndsResolution ==
    \A i \in Live :
        ThrewUncaught(i)
            => /\ res[i].pc = "returned"
               /\ res[i].result.error # Null
               /\ res[i].result.method = "not_found"
               /\ calls[i] # <<>>
               /\ calls[i][Len(calls[i])] = res[i].lastStep

C30_Witness ==
    \E i \in Live :
        /\ ThrewUncaught(i)
        /\ res[i].lastStep.kind = "doi"
        /\ res[i].ids.arxiv /\ HasTitleAndAuthor(i)
        /\ res[i].pc = "returned"
        /\ "arxiv" \notin KindsCalled(i) /\ "title" \notin KindsCalled(i)


====
